---- MODULE Spec2Model ----
(***************************************************************************)
(* Model of the two command-line tools of the repository, the directory    *)
(* scanner (dirscan.py) and the log aggregator (logsum.py), and of the     *)
(* helpers they share (toolkit.py):                                        *)
(*   - settings resolution  CLI > environment > config file > default,     *)
(*   - the streaming top-N aggregation of compute_stats.                   *)
(*                                                                         *)
(* A Python str is a sequence of one-character strings, so that            *)
(* startswith, split, strip, lower, int() and the ordering of strings are  *)
(* computed and not looked up.  Names that the code only uses as           *)
(* dictionary keys (setting names, environment variable names, config      *)
(* keys) are TLA+ strings.                                                 *)
(***************************************************************************)
EXTENDS Integers, Sequences, FiniteSets, TLC

VARIABLES
    program,      \* which program runs: "dirscan" or "logsum"
    argv,         \* the argv handed to main: a list of str
    sys_argv,     \* sys.argv[1:]
    os_env,       \* os.environ
    disk,         \* what the env file and the config files hold
    pc,           \* position of main / compute_stats
    args,         \* the argparse.Namespace
    cli_args,     \* the Namespace as parse_args returned it
    provided,     \* the set returned by parse_provided_options
    from_cli,     \* directory_from_cli / path_from_cli
    env_file,     \* the dict returned by load_env_file
    loads,        \* the config paths handed to load_config, in order
    exc,          \* the exception that ended the run (None if none)
    rc,           \* the exit status of the process (None while running)
    out,          \* what the run printed, wrote and posted, in order
    stream,       \* items of the entry stream not pulled yet
    presented,    \* items pulled so far, in order
    top_n,        \* compute_stats parameter
    count,        \* compute_stats local
    total_bytes,  \* compute_stats local
    heap,         \* compute_stats local: the heapq list
    stats,        \* Stats returned by compute_stats (None before)
    call,         \* a call of a toolkit function on its own: the function and its arguments
    result,       \* what that call returned (None before)
    level_filter, \* logsum compute_stats parameter
    level_counter, \* logsum compute_stats local: Counter of levels
    msg_counter,  \* logsum compute_stats local: Counter of messages
    total,        \* logsum compute_stats local
    by_message    \* compute_log_stats local: Counter of messages, in order of first sight

inputVars == <<program, argv, sys_argv, os_env, disk>>

mainVars == <<args, cli_args, provided, from_cli, env_file, loads, exc, rc, out>>

statVars == <<stream, presented, top_n, count, total_bytes, heap, stats>>

callVars == <<call, result>>

logVars == <<level_filter, level_counter, msg_counter, total, by_message>>

vars == <<inputVars, pc, mainVars, statVars, callVars, logVars>>

\* ------------------------------------------------------------------
\* Bounds of the model
\* ------------------------------------------------------------------

\* longest entry stream handed to compute_stats
MaxItems == 3

\* largest top_n tried
MaxTop == 2

\* largest file size of an entry
MaxSize == 2

\* ------------------------------------------------------------------
\* Python values
\* ------------------------------------------------------------------

None == [t |-> "none"]

PInt(i) == [t |-> "int", i |-> i]

PStr(s) == [t |-> "str", s |-> s]

PBool(b) == [t |-> "bool", b |-> b]

\* a float, kept in tenths (10.0 is 100)
PFloat(x) == [t |-> "float", tenths |-> x]

PPath(s) == [t |-> "path", p |-> s]

\* ------------------------------------------------------------------
\* Strings
\* ------------------------------------------------------------------

\* the characters the model uses, in code point order
Alphabet ==
    << " ", "\"", ",", "-", ".", "/", "0", "1", "2", "3", "4", "5", "6", "7", "8", "9",
       ":", "=", "A", "B", "C", "D", "E", "F", "G", "H", "I", "J", "K", "L", "M",
       "N", "O", "P", "Q", "R", "S", "T", "U", "V", "W", "X", "Y", "Z",
       "[", "]", "_",
       "a", "b", "c", "d", "e", "f", "g", "h", "i", "j", "k", "l", "m",
       "n", "o", "p", "q", "r", "s", "t", "u", "v", "w", "x", "y", "z", "{", "}" >>

Ord(c) == CHOOSE i \in 1..Len(Alphabet) : Alphabet[i] = c

\* Python's  a < b  on str: lexicographic by code point, a proper prefix is smaller
RECURSIVE StrLess(_, _)
StrLess(a, b) ==
    IF b = <<>> THEN FALSE
    ELSE IF a = <<>> THEN TRUE
    ELSE IF Head(a) = Head(b) THEN StrLess(Tail(a), Tail(b))
    ELSE Ord(Head(a)) < Ord(Head(b))

\* str.strip() takes off whitespace
IsSpace(c) == c \in {" ", "\t", "\n"}

RECURSIVE lstrip(_)
lstrip(s) == IF s # <<>> /\ IsSpace(Head(s)) THEN lstrip(Tail(s)) ELSE s

RECURSIVE rstrip(_)
rstrip(s) ==
    IF s # <<>> /\ IsSpace(s[Len(s)]) THEN rstrip(SubSeq(s, 1, Len(s) - 1)) ELSE s

strip(s) == rstrip(lstrip(s))

UpperCase == <<"A", "B", "C", "D", "E", "F", "G", "H", "I", "J", "K", "L", "M", "N", "O", "P", "Q", "R", "S", "T", "U", "V", "W", "X", "Y", "Z">>

LowerCase == <<"a", "b", "c", "d", "e", "f", "g", "h", "i", "j", "k", "l", "m", "n", "o", "p", "q", "r", "s", "t", "u", "v", "w", "x", "y", "z">>

LowerChar(c) ==
    IF \E i \in 1..Len(UpperCase) : UpperCase[i] = c
    THEN LowerCase[CHOOSE i \in 1..Len(UpperCase) : UpperCase[i] = c]
    ELSE c

\* str.lower()
lower(s) == [i \in 1..Len(s) |-> LowerChar(s[i])]

UpperChar(c) ==
    IF \E i \in 1..Len(LowerCase) : LowerCase[i] = c
    THEN UpperCase[CHOOSE i \in 1..Len(LowerCase) : LowerCase[i] = c]
    ELSE c

\* str.upper()
upper(s) == [i \in 1..Len(s) |-> UpperChar(s[i])]

\* str.startswith(prefix)
startswith(s, prefix) == Len(s) >= Len(prefix) /\ SubSeq(s, 1, Len(prefix)) = prefix

\* str.endswith(suffix)
endswith(s, suffix) ==
    Len(s) >= Len(suffix) /\ SubSeq(s, Len(s) - Len(suffix) + 1, Len(s)) = suffix

\* position of the first c in s, 0 when there is none
IndexOf(s, c) ==
    IF \E i \in 1..Len(s) : s[i] = c
    THEN CHOOSE i \in 1..Len(s) : s[i] = c /\ \A j \in 1..(i - 1) : s[j] # c
    ELSE 0

\* s.split(c, 1)[0]
SplitHead(s, c) == IF IndexOf(s, c) = 0 THEN s ELSE SubSeq(s, 1, IndexOf(s, c) - 1)

\* s.split(c, 1)[1], for an s that holds c
SplitRest(s, c) == SubSeq(s, IndexOf(s, c) + 1, Len(s))

\* x in s  for strings: x occurs in s
Contains(s, x) == \E i \in 1..(Len(s) - Len(x) + 1) : SubSeq(s, i, i + Len(x) - 1) = x

\* a Python list; argv is a list of str or None
PList(items) == [t |-> "list", items |-> items]

\* dict: d[key] = val
DictPut(d, key, val) ==
    [k \in (DOMAIN d) \cup {key} |-> IF k = key THEN val ELSE d[k]]

EmptyDict == [k \in {} |-> <<>>]

\* ------------------------------------------------------------------
\* Python conversions: int(), float(), bool(), str()
\* ------------------------------------------------------------------

\* the outcome of an expression: a value, or an exception raised
Ok(v) == [ok |-> TRUE, v |-> v]

Raise(type, msg) == [ok |-> FALSE, exc |-> [type |-> type, msg |-> msg]]

Digits == <<"0", "1", "2", "3", "4", "5", "6", "7", "8", "9">>

IsDigit(c) == \E i \in 1..Len(Digits) : Digits[i] = c

DigitVal(c) == (CHOOSE i \in 1..Len(Digits) : Digits[i] = c) - 1

AllDigits(s) == \A i \in 1..Len(s) : IsDigit(s[i])

\* the number a string of digits denotes (0 for the empty string)
RECURSIVE DigitsValue(_)
DigitsValue(s) ==
    IF s = <<>> THEN 0
    ELSE 10 * DigitsValue(SubSeq(s, 1, Len(s) - 1)) + DigitVal(s[Len(s)])

\* repr(s) of a str without quotes in it
Repr(s) == <<"'">> \o s \o <<"'">>

Unsigned(s) == IF s # <<>> /\ Head(s) \in {"-", "+"} THEN Tail(s) ELSE s

Sign(s) == IF s # <<>> /\ Head(s) = "-" THEN -1 ELSE 1

\* int(s) for a str: optional whitespace around, optional sign, digits
IntOfStr(raw) ==
    LET s == strip(raw)
    IN  IF Unsigned(s) # <<>> /\ AllDigits(Unsigned(s))
        THEN Ok(PInt(Sign(s) * DigitsValue(Unsigned(s))))
        ELSE Raise("ValueError", <<"i", "n", "v", "a", "l", "i", "d", " ", "l", "i", "t", "e", "r", "a", "l", " ", "f", "o", "r", " ", "i", "n", "t", "(", ")", " ", "w", "i", "t", "h", " ", "b", "a", "s", "e", " ", "1", "0", ":", " ">> \o Repr(raw))

\* float(s) for a str in plain decimal notation (digits, at most one point);
\* the value is kept in tenths, further decimals are cut
FloatOfStr(raw) ==
    LET s  == strip(raw)
        b  == Unsigned(s)
        ip == SplitHead(b, ".")
        fp == IF IndexOf(b, ".") = 0 THEN <<>> ELSE SplitRest(b, ".")
    IN  IF AllDigits(ip) /\ AllDigits(fp) /\ Len(ip) + Len(fp) > 0
        THEN Ok(PFloat(Sign(s) * (10 * DigitsValue(ip)
                                  + (IF fp = <<>> THEN 0 ELSE DigitVal(fp[1])))))
        ELSE Raise("ValueError", <<"c", "o", "u", "l", "d", " ", "n", "o", "t", " ", "c", "o", "n", "v", "e", "r", "t", " ", "s", "t", "r", "i", "n", "g", " ", "t", "o", " ", "f", "l", "o", "a", "t", ":", " ">> \o Repr(raw))

RECURSIVE NatStr(_)
NatStr(n) ==
    IF n < 10 THEN <<Digits[n + 1]>>
    ELSE NatStr(n \div 10) \o <<Digits[(n % 10) + 1]>>

IntStr(i) == IF i < 0 THEN <<"-">> \o NatStr(-i) ELSE NatStr(i)

Abs(i) == IF i < 0 THEN -i ELSE i

\* int(x) of a float cuts towards zero
Trunc10(x) == IF x < 0 THEN -(Abs(x) \div 10) ELSE x \div 10

\* str(x)
StrOf(x) ==
    CASE x.t = "str"   -> x.s
      [] x.t = "int"   -> IntStr(x.i)
      [] x.t = "bool"  -> IF x.b THEN <<"T", "r", "u", "e">> ELSE <<"F", "a", "l", "s", "e">>
      [] x.t = "none"  -> <<"N", "o", "n", "e">>
      [] x.t = "path"  -> x.p
      [] x.t = "float" -> (IF x.tenths < 0 THEN <<"-">> ELSE <<>>)
                            \o NatStr(Abs(x.tenths) \div 10) \o <<".">>
                            \o NatStr(Abs(x.tenths) % 10)

\* int(x)
IntOf(x) ==
    CASE x.t = "int"   -> Ok(x)
      [] x.t = "bool"  -> Ok(PInt(IF x.b THEN 1 ELSE 0))
      [] x.t = "float" -> Ok(PInt(Trunc10(x.tenths)))
      [] x.t = "str"   -> IntOfStr(x.s)
      [] OTHER         -> Raise("TypeError",
            <<"i", "n", "t", "(", ")", " ", "a", "r", "g", "u", "m", "e", "n", "t", " ", "m", "u", "s", "t", " ", "b", "e", " ", "a", " ", "s", "t", "r", "i", "n", "g", ",", " ", "a", " ", "b", "y", "t", "e", "s", "-", "l", "i", "k", "e", " ", "o", "b", "j", "e", "c", "t", " ", "o", "r", " ", "a", " ", "r", "e", "a", "l", " ", "n", "u", "m", "b", "e", "r", ",", " ", "n", "o", "t", " ", "'", "N", "o", "n", "e", "T", "y", "p", "e", "'">>)

\* float(x)
FloatOf(x) ==
    CASE x.t = "int"   -> Ok(PFloat(10 * x.i))
      [] x.t = "bool"  -> Ok(PFloat(IF x.b THEN 10 ELSE 0))
      [] x.t = "float" -> Ok(x)
      [] x.t = "str"   -> FloatOfStr(x.s)
      [] OTHER         -> Raise("TypeError",
            <<"f", "l", "o", "a", "t", "(", ")", " ", "a", "r", "g", "u", "m", "e", "n", "t", " ", "m", "u", "s", "t", " ", "b", "e", " ", "a", " ", "s", "t", "r", "i", "n", "g", " ", "o", "r", " ", "a", " ", "r", "e", "a", "l", " ", "n", "u", "m", "b", "e", "r", ",", " ", "n", "o", "t", " ", "'", "N", "o", "n", "e", "T", "y", "p", "e", "'">>)

\* bool(x)
BoolOf(x) ==
    CASE x.t = "bool"  -> x.b
      [] x.t = "int"   -> x.i # 0
      [] x.t = "float" -> x.tenths # 0
      [] x.t = "str"   -> x.s # <<>>
      [] x.t = "path"  -> TRUE
      [] OTHER         -> FALSE

\* ------------------------------------------------------------------
\* toolkit.py
\* ------------------------------------------------------------------

\* parse_provided_options with the cut at "=" left out: the whole token is recorded
parse_provided_options_whole_token(av) ==
    IF av = None THEN {}
    ELSE { av.items[i] : i \in { j \in 1..Len(av.items) : startswith(av.items[j], <<"-", "-">>) } }

\* parse_provided_options(argv)
parse_provided_options(av) ==
    IF av = None THEN {}
    ELSE { SplitHead(av.items[i], "=") :
             i \in { j \in 1..Len(av.items) : startswith(av.items[j], <<"-", "-">>) } }

Truthy == { <<"1">>, <<"t", "r", "u", "e">>, <<"y", "e", "s">>, <<"y">>, <<"o", "n">> }

Falsey == { <<"0">>, <<"f", "a", "l", "s", "e">>, <<"n", "o">>, <<"n">>, <<"o", "f", "f">> }

\* parse_bool comparing the value as it came, without strip().lower()
parse_bool_as_written(value) ==
    IF value \in Truthy THEN TRUE
    ELSE IF value \in Falsey THEN FALSE
    ELSE value # <<>>

\* parse_bool(value)
parse_bool(value) ==
    LET v == lower(strip(value))
    IN  IF v \in Truthy THEN TRUE
        ELSE IF v \in Falsey THEN FALSE
        ELSE v # <<>>

\* one row of the .env text, applied to the dict built so far
EnvRow(env, row) ==
    LET line0 == strip(row)
        line  == IF startswith(line0, <<"e", "x", "p", "o", "r", "t", " ">>) THEN lstrip(SubSeq(line0, 8, Len(line0)))
                 ELSE line0
        key   == strip(SplitHead(line, "="))
        val0  == strip(SplitRest(line, "="))
        val   == IF \/ startswith(val0, <<"\"">>) /\ endswith(val0, <<"\"">>)
                    \/ startswith(val0, <<"'">>) /\ endswith(val0, <<"'">>)
                 THEN SubSeq(val0, 2, Len(val0) - 1)
                 ELSE val0
    IN  IF line0 = <<>> \/ startswith(line0, <<"#">>) THEN env
        ELSE IF IndexOf(line, "=") = 0 THEN env
        ELSE IF key # <<>> THEN DictPut(env, key, val)
        ELSE env

RECURSIVE EnvRows(_, _)
EnvRows(env, rows) ==
    IF rows = <<>> THEN env ELSE EnvRows(EnvRow(env, Head(rows)), Tail(rows))

\* load_env_file(path, logger): file is what the path holds on disk
load_env_file(file) ==
    IF file.kind # "text" THEN EmptyDict
    ELSE EnvRows(EmptyDict, file.rows)

\* get_env with the two sources in the other order: the OS environment wins
get_env_os_first(osenv, name, envf) ==
    IF name \in DOMAIN osenv /\ osenv[name] # <<>> THEN PStr(osenv[name])
    ELSE IF name \in DOMAIN envf /\ envf[name] # <<>> THEN PStr(envf[name])
    ELSE None

\* get_env(name, env_file); osenv is os.environ
get_env(osenv, name, envf) ==
    IF name \in DOMAIN envf /\ envf[name] # <<>> THEN PStr(envf[name])
    ELSE IF name \in DOMAIN osenv /\ osenv[name] # <<>> THEN PStr(osenv[name])
    ELSE None

\* ------------------------------------------------------------------
\* parse_args of dirscan.py and logsum.py
\* ------------------------------------------------------------------

Tools == {"dirscan", "logsum"}

\* the positional argument of the tool
Positional(tool) == IF tool = "dirscan" THEN "directory" ELSE "path"

Opt(o, d, k, c) == [opt |-> o, dest |-> d, kind |-> k, choices |-> c]

\* the add_argument calls for options, in order
Options(tool) ==
    IF tool = "dirscan"
    THEN << Opt(<<"-", "-", "m", "o", "d", "e">>, "mode", "str", {<<"f", "i", "l", "e">>, <<"a", "l", "l">>}),
            Opt(<<"-", "-", "t", "o", "p">>, "top", "int", {}),
            Opt(<<"-", "-", "h", "u", "m", "a", "n">>, "human", "flag", {}),
            Opt(<<"-", "-", "v", "e", "r", "b", "o", "s", "e">>, "verbose", "flag", {}),
            Opt(<<"-", "-", "j", "s", "o", "n">>, "json", "flag", {}),
            Opt(<<"-", "-", "m", "i", "n", "-", "s", "i", "z", "e">>, "min_size", "int", {}),
            Opt(<<"-", "-", "r", "e", "l", "a", "t", "i", "v", "e">>, "relative", "flag", {}),
            Opt(<<"-", "-", "p", "o", "s", "t">>, "post", "str", {}),
            Opt(<<"-", "-", "t", "i", "m", "e", "o", "u", "t">>, "timeout", "float", {}),
            Opt(<<"-", "-", "c", "o", "n", "f", "i", "g">>, "config", "path", {}),
            Opt(<<"-", "-", "o", "u", "t">>, "out", "path", {}),
            Opt(<<"-", "-", "e", "n", "v", "-", "f", "i", "l", "e">>, "env_file", "path", {}) >>
    ELSE << Opt(<<"-", "-", "l", "e", "v", "e", "l">>, "level", "str", {}),
            Opt(<<"-", "-", "t", "o", "p">>, "top", "int", {}),
            Opt(<<"-", "-", "j", "s", "o", "n">>, "json", "flag", {}),
            Opt(<<"-", "-", "v", "e", "r", "b", "o", "s", "e">>, "verbose", "flag", {}),
            Opt(<<"-", "-", "p", "o", "s", "t">>, "post", "str", {}),
            Opt(<<"-", "-", "t", "i", "m", "e", "o", "u", "t">>, "timeout", "float", {}),
            Opt(<<"-", "-", "c", "o", "n", "f", "i", "g">>, "config", "path", {}),
            Opt(<<"-", "-", "o", "u", "t">>, "out", "path", {}),
            Opt(<<"-", "-", "e", "n", "v", "-", "f", "i", "l", "e">>, "env_file", "path", {}) >>

Dests(tool) == {Positional(tool)} \cup { Options(tool)[i].dest : i \in 1..Len(Options(tool)) }

\* the option string of a dest
OptOf(tool, dest) ==
    Options(tool)[CHOOSE i \in 1..Len(Options(tool)) : Options(tool)[i].dest = dest].opt

\* the default= of each add_argument (store_true defaults to False)
Defaults(tool) ==
    [d \in Dests(tool) |->
        CASE d = "mode"    -> PStr(<<"f", "i", "l", "e">>)
          [] d = "level"   -> PStr(<<>>)
          [] d = "top"     -> PInt(IF tool = "dirscan" THEN 10 ELSE 5)
          [] d = "min_size" -> PInt(0)
          [] d = "post"    -> PStr(<<>>)
          [] d = "timeout" -> PFloat(100)
          [] d \in {"human", "verbose", "json", "relative"} -> PBool(FALSE)
          [] OTHER         -> None]

\* parser.error(): SystemExit(2)
UsageError == Raise("SystemExit", <<"2">>)

\* the options argparse takes a "--name" for: the exact one, else those it is
\* a prefix of (allow_abbrev)
Matches(tool, name) ==
    LET opts  == Options(tool)
        exact == { i \in 1..Len(opts) : opts[i].opt = name }
    IN  IF exact # {} THEN exact
        ELSE { i \in 1..Len(opts) : startswith(opts[i].opt, name) }

\* type= of add_argument applied to the argument string
ArgType(kind, raw) ==
    CASE kind = "int"   -> IntOfStr(raw)
      [] kind = "float" -> FloatOfStr(raw)
      [] kind = "path"  -> Ok(PPath(raw))
      [] OTHER          -> Ok(PStr(raw))

\* an argument string that argparse takes for an option and not for a value
LooksLikeOption(tok) ==
    /\ startswith(tok, <<"-">>)
    /\ ~(Len(tok) >= 2 /\ IsDigit(tok[2]))

\* ArgumentParser.parse_args over the remaining tokens, ns the namespace so far
RECURSIVE ParseTokens(_, _, _)
ParseTokens(tool, toks, ns) ==
    IF toks = <<>> THEN Ok(ns)
    ELSE
      LET tok == Head(toks) IN
      IF startswith(tok, <<"-", "-">>)
      THEN
        LET name  == SplitHead(tok, "=")
            hasEq == IndexOf(tok, "=") # 0
            m     == Matches(tool, name)
        IN  IF Cardinality(m) # 1 THEN UsageError
            ELSE
              LET o == Options(tool)[CHOOSE i \in m : TRUE] IN
              IF o.kind = "flag"
              THEN IF hasEq THEN UsageError
                   ELSE ParseTokens(tool, Tail(toks), [ns EXCEPT ![o.dest] = PBool(TRUE)])
              ELSE
                LET inline == hasEq
                    noArg  == ~inline /\ (Len(toks) < 2 \/ LooksLikeOption(toks[2]))
                    raw    == IF inline THEN SplitRest(tok, "=")
                              ELSE IF noArg THEN <<>> ELSE toks[2]
                    r      == ArgType(o.kind, raw)
                    rest   == IF inline THEN Tail(toks) ELSE Tail(Tail(toks))
                IN  IF noArg \/ ~r.ok THEN UsageError
                    ELSE IF o.choices # {} /\ raw \notin o.choices THEN UsageError
                    ELSE ParseTokens(tool, rest, [ns EXCEPT ![o.dest] = r.v])
      ELSE IF ns[Positional(tool)] # None THEN UsageError
      ELSE ParseTokens(tool, Tail(toks), [ns EXCEPT ![Positional(tool)] = PPath(tok)])

\* parse_args(argv): argv None reads sys.argv[1:]
parse_args(tool, av, sysargv) ==
    ParseTokens(tool, IF av = None THEN sysargv ELSE av.items, Defaults(tool))

\* ------------------------------------------------------------------
\* load_config, apply_config, apply_env
\* ------------------------------------------------------------------

\* load_config(path, logger): file is what the path holds on disk; anything
\* but a readable JSON object gives {}
load_config(file) ==
    IF file.kind = "json" /\ file.data.t = "dict" THEN file.data.d ELSE EmptyDict

\* the settings apply_config assigns, in the order of its statements
ConfigSteps(tool) ==
    IF tool = "dirscan"
    THEN << "directory", "mode", "top", "min_size", "timeout", "post", "out",
            "human", "verbose", "json", "relative" >>
    ELSE << "path", "level", "top", "timeout", "post", "out", "json", "verbose" >>

\* the conversion each statement applies
Conv(dest) ==
    CASE dest \in {"directory", "path", "out", "config"} -> "path"
      [] dest \in {"mode", "level", "post"}               -> "str"
      [] dest \in {"top", "min_size"}                     -> "int"
      [] dest = "timeout"                                 -> "float"
      [] OTHER                                            -> "bool"

\* apply_config with the test  "--name" not in provided  left out
CfgGuardUnprotected(tool, dest, a, cfg, prov) ==
    IF dest = Positional(tool)
    THEN a[dest] = None /\ dest \in DOMAIN cfg
    ELSE dest \in DOMAIN cfg

\* the condition of one statement of apply_config
CfgGuard(tool, dest, a, cfg, prov) ==
    IF dest = Positional(tool)
    THEN a[dest] = None /\ dest \in DOMAIN cfg
    ELSE OptOf(tool, dest) \notin prov /\ dest \in DOMAIN cfg

\* the right-hand side of one statement of apply_config
CfgCoerce(conv, x) ==
    CASE conv = "path"  -> Ok(PPath(StrOf(x)))
      [] conv = "str"   -> Ok(PStr(StrOf(x)))
      [] conv = "int"   -> IntOf(x)
      [] conv = "float" -> FloatOf(x)
      [] OTHER          -> Ok(PBool(BoolOf(x)))

RECURSIVE ApplyConfigSteps(_, _, _, _, _)
ApplyConfigSteps(tool, steps, a, cfg, prov) ==
    IF steps = <<>> THEN Ok(a)
    ELSE
      LET d == Head(steps) IN
      IF CfgGuard(tool, d, a, cfg, prov)
      THEN LET r == CfgCoerce(Conv(d), cfg[d])
           IN  IF r.ok
               THEN ApplyConfigSteps(tool, Tail(steps), [a EXCEPT ![d] = r.v], cfg, prov)
               ELSE r
      ELSE ApplyConfigSteps(tool, Tail(steps), a, cfg, prov)

\* apply_config(args, cfg, provided, logger)
apply_config(tool, a, cfg, prov) ==
    ApplyConfigSteps(tool, ConfigSteps(tool), a, cfg, prov)

EnvPrefix(tool) == IF tool = "dirscan" THEN <<"D", "I", "R", "S", "C", "A", "N", "_">> ELSE <<"L", "O", "G", "S", "U", "M", "_">>

\* the environment variable of a dest
EnvName(tool, dest) ==
    EnvPrefix(tool) \o
    ( CASE dest = "directory" -> <<"D", "I", "R", "E", "C", "T", "O", "R", "Y">>
        [] dest = "path"      -> <<"P", "A", "T", "H">>
        [] dest = "mode"      -> <<"M", "O", "D", "E">>
        [] dest = "level"     -> <<"L", "E", "V", "E", "L">>
        [] dest = "top"       -> <<"T", "O", "P">>
        [] dest = "min_size"  -> <<"M", "I", "N", "_", "S", "I", "Z", "E">>
        [] dest = "timeout"   -> <<"T", "I", "M", "E", "O", "U", "T">>
        [] dest = "post"      -> <<"P", "O", "S", "T">>
        [] dest = "out"       -> <<"O", "U", "T">>
        [] dest = "human"     -> <<"H", "U", "M", "A", "N">>
        [] dest = "verbose"   -> <<"V", "E", "R", "B", "O", "S", "E">>
        [] dest = "json"      -> <<"J", "S", "O", "N">>
        [] dest = "relative"  -> <<"R", "E", "L", "A", "T", "I", "V", "E">>
        [] dest = "config"    -> <<"C", "O", "N", "F", "I", "G">> )

\* the settings apply_env assigns, in the order of its statements
EnvSteps(tool) ==
    IF tool = "dirscan"
    THEN << "config", "directory", "mode", "top", "min_size", "timeout", "post", "out",
            "human", "verbose", "json", "relative" >>
    ELSE << "config", "path", "level", "top", "timeout", "post", "out", "json", "verbose" >>

\* apply_env with the tests on provided and directory_from_cli left out
EnvGuardUnprotected(tool, dest, a, prov, fcli) ==
    CASE dest = "config" -> a["config"] = None
      [] OTHER           -> TRUE

\* the outer condition of one statement of apply_env
EnvGuard(tool, dest, a, prov, fcli) ==
    CASE dest = "config"         -> OptOf(tool, "config") \notin prov /\ a["config"] = None
      [] dest = Positional(tool) -> ~fcli
      [] OTHER                   -> OptOf(tool, dest) \notin prov

\* the inner condition:  if v  for the others,  if v is not None  for the flags
EnvPresent(conv, v) ==
    IF conv = "bool" THEN v # None ELSE v # None /\ v.s # <<>>

\* the right-hand side of one statement of apply_env
EnvCoerce(conv, raw) ==
    CASE conv = "path"  -> Ok(PPath(raw))
      [] conv = "str"   -> Ok(PStr(raw))
      [] conv = "int"   -> IntOfStr(raw)
      [] conv = "float" -> FloatOfStr(raw)
      [] OTHER          -> Ok(PBool(parse_bool(raw)))

RECURSIVE ApplyEnvSteps(_, _, _, _, _, _, _)
ApplyEnvSteps(tool, steps, a, osenv, envf, prov, fcli) ==
    IF steps = <<>> THEN Ok(a)
    ELSE
      LET d == Head(steps)
          v == get_env(osenv, EnvName(tool, d), envf)
      IN  IF EnvGuard(tool, d, a, prov, fcli) /\ EnvPresent(Conv(d), v)
          THEN LET r == EnvCoerce(Conv(d), v.s)
               IN  IF r.ok
                   THEN ApplyEnvSteps(tool, Tail(steps), [a EXCEPT ![d] = r.v],
                                      osenv, envf, prov, fcli)
                   ELSE r
          ELSE ApplyEnvSteps(tool, Tail(steps), a, osenv, envf, prov, fcli)

\* apply_env(args, env_file, provided, logger, directory_from_cli)
apply_env(tool, a, osenv, envf, prov, fcli) ==
    ApplyEnvSteps(tool, EnvSteps(tool), a, osenv, envf, prov, fcli)

\* ------------------------------------------------------------------
\* dirscan: compute_stats
\* ------------------------------------------------------------------

\* Entry(path, size): the path is kept as str(path)
Entry(p, s) == [path |-> p, size |-> s]

\* HeapItem (e.size, str(e.path), e) < HeapItem: tuple comparison.  The third
\* component is reached only when size and path string agree, and then the two
\* Entry objects are equal (dataclass __eq__), so the tuples are equal.
ItemLess(a, b) ==
    \/ a.size < b.size
    \/ a.size = b.size /\ StrLess(a.path, b.path)

\* item > heap[0]
ItemGreater(a, b) == ItemLess(b, a)

\* heapq._siftdown(heap, startpos, pos), positions counted from 1
RECURSIVE SiftDown(_, _, _, _)
SiftDown(h, startpos, pos, newitem) ==
    IF pos > startpos /\ ItemLess(newitem, h[pos \div 2])
    THEN SiftDown([h EXCEPT ![pos] = h[pos \div 2]], startpos, pos \div 2, newitem)
    ELSE [h EXCEPT ![pos] = newitem]

\* heapq.heappush(heap, item)
heappush(h, item) == SiftDown(Append(h, item), 1, Len(h) + 1, item)

\* the loop of heapq._siftup: moves the smaller child up until a leaf is hit;
\* yields the list and the leaf position
RECURSIVE SiftUpLoop(_, _)
SiftUpLoop(h, pos) ==
    LET childpos == 2 * pos
        rightpos == childpos + 1
        c == IF rightpos <= Len(h) /\ ~ItemLess(h[childpos], h[rightpos])
             THEN rightpos ELSE childpos
    IN  IF childpos <= Len(h)
        THEN SiftUpLoop([h EXCEPT ![pos] = h[c]], c)
        ELSE <<h, pos>>

\* heapq.heapreplace(heap, item): heap[0] = item; _siftup(heap, 0)
heapreplace(h, item) ==
    LET r == SiftUpLoop([h EXCEPT ![1] = item], 1)
    IN  SiftDown(r[1], 1, r[2], item)

\* compute_stats with the replacement branch dropped: the heap keeps the first
\* top_n items of the stream
OfferHeapKeepFirst(h, e, n) ==
    IF n <= 0 THEN h
    ELSE IF Len(h) < n THEN heappush(h, e)
    ELSE h

\* compute_stats with the length test dropped: every item is pushed
OfferHeapUnbounded(h, e, n) ==
    IF n <= 0 THEN h
    ELSE heappush(h, e)

\* the body of the loop of compute_stats after the counters: the new heap
OfferHeap(h, e, n) ==
    IF n <= 0 THEN h
    ELSE IF Len(h) < n THEN heappush(h, e)
    ELSE IF ItemGreater(e, h[1]) THEN heapreplace(h, e)
    ELSE h

\* the sort key with the size not negated: ascending size
SortKeyAscending(a, b) ==
    \/ a.size < b.size
    \/ a.size = b.size /\ StrLess(a.path, b.path)

\* key=lambda t: (-t[0], t[1])  compared with <
SortKeyLess(a, b) ==
    \/ a.size > b.size
    \/ a.size = b.size /\ StrLess(a.path, b.path)

\* insertion of x into a sorted list, after the elements that are not greater
\* (sorted() is stable)
RECURSIVE InsertSorted(_, _)
InsertSorted(s, x) ==
    IF s = <<>> THEN <<x>>
    ELSE IF SortKeyLess(x, Head(s)) THEN <<x>> \o s
    ELSE <<Head(s)>> \o InsertSorted(Tail(s), x)

\* sorted(heap, key=lambda t: (-t[0], t[1]))
RECURSIVE SortedTop(_)
SortedTop(h) ==
    IF h = <<>> THEN <<>>
    ELSE InsertSorted(SortedTop(SubSeq(h, 1, Len(h) - 1)), h[Len(h)])

\* Stats with the count taken from the heap
StatsCountOfHeap(c, t, h) == [count |-> Len(h), total_bytes |-> t, top |-> SortedTop(h)]

\* Stats(count, total_bytes, top)
Stats(c, t, h) == [count |-> c, total_bytes |-> t, top |-> SortedTop(h)]

\* one pass of the loop  for e in entries  of compute_stats
Offer ==
    /\ pc = "scan"
    /\ stream # <<>>
    /\ LET e == Head(stream)
       IN  /\ stream' = Tail(stream)
           /\ presented' = Append(presented, e)
           /\ count' = count + 1
           /\ total_bytes' = total_bytes + e.size
           /\ heap' = OfferHeap(heap, e, top_n)
    /\ UNCHANGED <<callVars, logVars, inputVars, mainVars, pc, top_n, stats>>

\* the stream is exhausted: sort the heap and return Stats
Finalize ==
    /\ pc = "scan"
    /\ stream = <<>>
    /\ stats' = Stats(count, total_bytes, heap)
    /\ pc' = "computed"
    /\ UNCHANGED <<callVars, logVars, inputVars, mainVars, stream, presented, top_n, count, total_bytes, heap>>

\* ------------------------------------------------------------------
\* The file system the runs see
\* ------------------------------------------------------------------

Node(n, k, sz, ok) == [name |-> n, kind |-> k, size |-> sz, stat_ok |-> ok]

\* the directories that exist, each with what root.rglob("*") yields, in order
Tree ==
    (<<"d", "1">> :> << Node(<<"a">>, "file", 2, TRUE), Node(<<"s", "u", "b">>, "dir", 0, TRUE),
                 Node(<<"b">>, "file", 2, TRUE), Node(<<"a", "b">>, "file", 1, TRUE) >>)
 @@ (<<"d", "2">> :> << Node(<<"b">>, "file", 1, TRUE) >>)
 @@ (<<"d", "3">> :> << Node(<<"a">>, "file", 1, TRUE), Node(<<"b">>, "file", 2, FALSE),
                 Node(<<"a", "b">>, "file", 1, TRUE) >>)
 @@ (<<"d", "4">> :> << >>)
 @@ (<<".">>  :> << Node(<<"a">>, "file", 1, TRUE), Node(<<"b">>, "file", 2, FALSE),
                 Node(<<"o">>, "other", 0, TRUE), Node(<<"c">>, "file", 3, TRUE) >>)

\* the regular files that exist besides the env and config files
Files == { <<"l", "1">>, <<"l", "2">>, <<"l", "3">>, <<"l", "4">> }

\* Path.exists() / is_dir() / is_file() of a path
PathKind(p) ==
    IF p \in DOMAIN Tree THEN "dir" ELSE IF p \in Files THEN "file" ELSE "missing"

\* what a path holds on disk
DiskAt(p) == IF p \in DOMAIN disk THEN disk[p] ELSE [kind |-> "missing"]

\* ------------------------------------------------------------------
\* dirscan: iter_entries, validate_args
\* ------------------------------------------------------------------

\* should_count(path, mode)
should_count(node, mode) ==
    IF mode = <<"f", "i", "l", "e">> THEN node.kind = "file"
    ELSE IF mode = <<"a", "l", "l">> THEN node.kind # "dir"
    ELSE FALSE

\* iter_entries with the stat failure ending the walk instead of the item
RECURSIVE IterEntriesStopAtFailure(_, _, _, _)
IterEntriesStopAtFailure(root, nodes, mode, min_size) ==
    IF nodes = <<>> THEN <<>>
    ELSE
      LET n    == Head(nodes)
          rest == IterEntriesStopAtFailure(root, Tail(nodes), mode, min_size)
      IN  IF ~should_count(n, mode) THEN rest
          ELSE IF ~n.stat_ok THEN <<>>
          ELSE IF n.size < min_size THEN rest
          ELSE <<Entry(root \o <<"/">> \o n.name, n.size)>> \o rest

\* the loop of iter_entries over what rglob yields
RECURSIVE IterEntries(_, _, _, _)
IterEntries(root, nodes, mode, min_size) ==
    IF nodes = <<>> THEN <<>>
    ELSE
      LET n    == Head(nodes)
          rest == IterEntries(root, Tail(nodes), mode, min_size)
      IN  IF ~should_count(n, mode) THEN rest
          ELSE IF ~n.stat_ok THEN rest
          ELSE IF n.size < min_size THEN rest
          ELSE <<Entry(root \o <<"/">> \o n.name, n.size)>> \o rest

\* iter_entries(root, mode, min_size, logger): the entries it yields, in order
iter_entries(root, mode, min_size) == IterEntries(root, Tree[root], mode, min_size)

\* directory = args.directory or Path("."); the names of Tree stand for resolved paths
RootOf(a) == IF a["directory"] # None THEN a["directory"].p ELSE <<".">>

\* validate_args without the test of timeout
validate_args_any_timeout(a, root) ==
    IF PathKind(root) = "missing" THEN 2
    ELSE IF PathKind(root) # "dir" THEN 2
    ELSE IF a["top"].i < 0 THEN 2
    ELSE IF a["min_size"].i < 0 THEN 2
    ELSE 0

\* validate_args(args, root) of dirscan
validate_args(a, root) ==
    IF PathKind(root) = "missing" THEN 2
    ELSE IF PathKind(root) # "dir" THEN 2
    ELSE IF a["top"].i < 0 THEN 2
    ELSE IF a["min_size"].i < 0 THEN 2
    ELSE IF a["timeout"].tenths <= 0 THEN 2
    ELSE 0

\* validate_args(args) of logsum
validate_args_logsum(a) ==
    IF a["top"].i < 0 THEN 2
    ELSE IF a["timeout"].tenths <= 0 THEN 2
    ELSE IF a["path"] = None THEN 0
    ELSE IF a["path"].p = <<"-">> THEN 0
    ELSE IF PathKind(a["path"].p) = "missing" THEN 2
    ELSE IF PathKind(a["path"].p) # "file" THEN 2
    ELSE 0

\* rc = validate_args(...) in main of either tool
ValidateRc(tool, a) ==
    IF tool = "dirscan" THEN validate_args(a, RootOf(a)) ELSE validate_args_logsum(a)

\* ------------------------------------------------------------------
\* resolve_effective_args and main
\* ------------------------------------------------------------------

\* the same without the test  if v: an unset variable read as "" gives Path("")
EnvConfigPathUntested(tool, a, osenv, envf, prov) ==
    LET v == get_env(osenv, EnvName(tool, "config"), envf)
    IN  IF a["config"] = None /\ OptOf(tool, "config") \notin prov
        THEN [a EXCEPT !["config"] = PPath(IF v = None THEN <<".">> ELSE v.s)]
        ELSE a

\* the same without the tests on --config: the environment replaces the path
\* the command line gave
EnvConfigPathOverCli(tool, a, osenv, envf, prov) ==
    LET v == get_env(osenv, EnvName(tool, "config"), envf)
    IN  IF v # None THEN [a EXCEPT !["config"] = PPath(v.s)] ELSE a

\* the config path taken from the environment before the config is read
EnvConfigPath(tool, a, osenv, envf, prov) ==
    LET v == get_env(osenv, EnvName(tool, "config"), envf)
    IN  IF a["config"] = None /\ OptOf(tool, "config") \notin prov /\ v # None
        THEN [a EXCEPT !["config"] = PPath(v.s)]
        ELSE a

\* the two merges in the other order: environment first, config on top of it
MergeSourcesEnvFirst(tool, a, file, osenv, envf, prov, fcli) ==
    LET r == apply_env(tool, a, osenv, envf, prov, fcli)
    IN  IF r.ok /\ a["config"] # None
        THEN apply_config(tool, r.v, load_config(file), prov)
        ELSE r

\* load_config without its except clause and its isinstance test: a config
\* file that is not a readable JSON object ends the run
MergeSourcesLoadRaises(tool, a, file, osenv, envf, prov, fcli) ==
    LET r == IF a["config"] # None
             THEN apply_config(tool, a, load_config(file), prov)
             ELSE Ok(a)
    IN  IF a["config"] # None /\ ~(file.kind = "json" /\ file.data.t = "dict")
        THEN Raise("OSError", <<"c", "o", "n", "f", "i", "g", " ", "l", "o", "a", "d", " ", "f", "a", "i", "l", "e", "d">>)
        ELSE IF r.ok THEN apply_env(tool, r.v, osenv, envf, prov, fcli) ELSE r

\* config (lowest) applied, then env (middle); file is what args.config holds
MergeSources(tool, a, file, osenv, envf, prov, fcli) ==
    LET r == IF a["config"] # None
             THEN apply_config(tool, a, load_config(file), prov)
             ELSE Ok(a)
    IN  IF r.ok THEN apply_env(tool, r.v, osenv, envf, prov, fcli) ELSE r

\* args = parse_args(argv); directory_from_cli; provided
ParseArgs ==
    /\ pc = "start"
    /\ LET r == parse_args(program, argv, sys_argv)
       IN  IF r.ok
           THEN /\ args' = r.v
                /\ cli_args' = r.v
                /\ from_cli' = (r.v[Positional(program)] # None)
                /\ provided' = parse_provided_options(argv)
                /\ pc' = "parsed"
                /\ UNCHANGED <<exc, rc>>
           ELSE /\ exc' = r.exc
                /\ rc' = PInt(2)
                /\ pc' = "exit"
                /\ UNCHANGED <<args, cli_args, from_cli, provided>>
    /\ UNCHANGED <<callVars, logVars, inputVars, env_file, loads, out, statVars>>

\* the env file is loaded and the config path is taken from the environment
ReadEnv ==
    /\ pc = "parsed"
    /\ LET envf == IF args["env_file"] # None
                   THEN load_env_file(DiskAt(args["env_file"].p))
                   ELSE EmptyDict
       IN  /\ env_file' = envf
           /\ args' = EnvConfigPath(program, args, os_env, envf, provided)
    /\ pc' = "env_read"
    /\ UNCHANGED <<callVars, logVars, inputVars, cli_args, provided, from_cli, loads, exc, rc, out, statVars>>

\* the config is loaded and applied, the environment is applied; a failed
\* conversion leaves resolve_effective_args and main as an uncaught exception
Merge ==
    /\ pc = "env_read"
    /\ LET file == IF args["config"] # None THEN DiskAt(args["config"].p)
                   ELSE [kind |-> "missing"]
           r    == MergeSources(program, args, file, os_env, env_file, provided, from_cli)
       IN  /\ loads' = IF args["config"] # None THEN Append(loads, args["config"].p) ELSE loads
           /\ IF r.ok
              THEN /\ args' = r.v
                   /\ pc' = "resolved"
                   /\ UNCHANGED <<exc, rc>>
              ELSE /\ exc' = r.exc
                   /\ rc' = PInt(1)
                   /\ pc' = "exit"
                   /\ UNCHANGED args
    /\ UNCHANGED <<callVars, logVars, inputVars, cli_args, provided, from_cli, env_file, out, statVars>>

\* rc = validate_args(args, root); if rc != 0: return rc
Validate ==
    /\ pc = "resolved"
    /\ IF ValidateRc(program, args) # 0
       THEN /\ rc' = PInt(ValidateRc(program, args))
            /\ pc' = "exit"
       ELSE /\ pc' = "validated"
            /\ UNCHANGED rc
    /\ UNCHANGED <<callVars, logVars, inputVars, args, cli_args, provided, from_cli, env_file, loads, exc, out,
                   statVars>>

\* entries = iter_entries(...); compute_stats(entries, top_n=args.top) is entered
StartScan ==
    /\ pc = "validated"
    /\ program = "dirscan"
    /\ stream' = iter_entries(RootOf(args), args["mode"].s, args["min_size"].i)
    /\ top_n' = args["top"].i
    /\ presented' = <<>>
    /\ count' = 0
    /\ total_bytes' = 0
    /\ heap' = <<>>
    /\ pc' = "scan"
    /\ UNCHANGED <<callVars, logVars, inputVars, mainVars, stats>>

\* if args.json and payload is not None: print(json.dumps(payload))
EmitJson ==
    /\ pc = "computed"
    /\ out' = IF args["json"].b THEN Append(out, "stdout:json") ELSE out
    /\ pc' = "emitted"
    /\ UNCHANGED <<callVars, logVars, inputVars, args, cli_args, provided, from_cli, env_file, loads, exc, rc,
                   statVars>>

\* if args.out is not None: write_json_file; a failed write returns 1
WriteOut ==
    /\ pc = "emitted"
    /\ IF args["out"] # None
       THEN \E ok \in BOOLEAN :
              /\ out' = Append(out, "file:write")
              /\ IF ok THEN pc' = "written" /\ UNCHANGED rc
                 ELSE pc' = "exit" /\ rc' = PInt(1)
       ELSE /\ pc' = "written"
            /\ UNCHANGED <<out, rc>>
    /\ UNCHANGED <<callVars, logVars, inputVars, args, cli_args, provided, from_cli, env_file, loads, exc,
                   statVars>>

\* if args.post: post_json; a failed POST returns 1
PostJson ==
    /\ pc = "written"
    /\ IF args["post"].s # <<>>
       THEN \E ok \in BOOLEAN :
              /\ out' = Append(out, "http:post")
              /\ IF ok THEN pc' = "posted" /\ UNCHANGED rc
                 ELSE pc' = "exit" /\ rc' = PInt(1)
       ELSE /\ pc' = "posted"
            /\ UNCHANGED <<out, rc>>
    /\ UNCHANGED <<callVars, logVars, inputVars, args, cli_args, provided, from_cli, env_file, loads, exc,
                   statVars>>

\* if args.json: return 0; else the report for people is printed; return 0
Report ==
    /\ pc = "posted"
    /\ out' = IF args["json"].b THEN out ELSE Append(out, "stdout:report")
    /\ rc' = PInt(0)
    /\ pc' = "exit"
    /\ UNCHANGED <<callVars, logVars, inputVars, args, cli_args, provided, from_cli, env_file, loads, exc,
                   statVars>>

\* ------------------------------------------------------------------
\* The runs of main: one setting is named by the command line, the env
\* file, the OS environment and the config file in every combination, with
\* every way of naming the env file and the config file
\* ------------------------------------------------------------------

\* the settings whose sources vary
FocusDests(tool) == Dests(tool) \ {"config", "env_file"}

KindOf(tool, dest) ==
    IF dest = Positional(tool) THEN "positional"
    ELSE Options(tool)[CHOOSE i \in 1..Len(Options(tool)) : Options(tool)[i].dest = dest].kind

\* how the command line names the setting
CliForms(tool, dest) ==
    CASE KindOf(tool, dest) = "flag"           -> {"absent", "bare"}
      [] KindOf(tool, dest) = "positional"     -> {"absent", "bare", "bad"}
      [] KindOf(tool, dest) \in {"int", "float"} -> {"absent", "bare", "eq", "bad"}
      [] OTHER                                 -> {"absent", "bare", "eq"}

\* the value the command line gives it
CliVal(dest) ==
    CASE dest = "directory" -> <<"d", "1">>
      [] dest = "path"      -> <<"l", "1">>
      [] dest = "mode"      -> <<"a", "l", "l">>
      [] dest = "level"     -> <<"I", "N", "F", "O">>
      [] dest = "top"       -> <<"3">>
      [] dest = "min_size"  -> <<"2">>
      [] dest = "timeout"   -> <<"2", ".", "5">>
      [] dest = "post"      -> <<"u", "1">>
      [] dest = "out"       -> <<"o", "1">>
      [] OTHER              -> <<>>

\* a value the command line gives it that validate_args rejects
CliBadVal(dest) ==
    CASE dest = "directory" -> <<"n", "o", "d", "i", "r">>
      [] dest = "path"      -> <<"n", "o", "f", "i", "l", "e">>
      [] dest = "timeout"   -> <<"0">>
      [] OTHER              -> <<"-", "1">>

CliTokens(tool, dest, form) ==
    CASE form = "absent" -> <<>>
      [] form = "bad"    ->
            IF KindOf(tool, dest) = "positional" THEN << CliBadVal(dest) >>
            ELSE << OptOf(tool, dest), CliBadVal(dest) >>
      [] form = "eq"     -> << OptOf(tool, dest) \o <<"=">> \o CliVal(dest) >>
      [] form = "bare"   ->
            IF KindOf(tool, dest) = "positional" THEN << CliVal(dest) >>
            ELSE IF KindOf(tool, dest) = "flag" THEN << OptOf(tool, dest) >>
            ELSE << OptOf(tool, dest), CliVal(dest) >>

\* the values the env file gives it
EnvFileVals(dest) ==
    CASE dest = "directory" -> { <<>>, <<"d", "2">>, <<"l", "1">> }
      [] dest = "path"      -> { <<>>, <<"l", "2">>, <<"d", "1">> }
      [] dest = "mode"      -> { <<>>, <<"a", "l", "l">>, <<"z", "z">> }
      [] dest = "level"     -> { <<>>, <<"w", "a", "r", "n">> }
      [] dest \in {"top", "min_size"} -> { <<>>, <<"2">>, <<"a", "b", "c">>, <<"-", "1">> }
      [] dest = "timeout"   -> { <<>>, <<"1", ".", "5">>, <<"a", "b", "c">>, <<"0">> }
      [] dest = "post"      -> { <<>>, <<"u", "2">> }
      [] dest = "out"       -> { <<>>, <<"o", "2">> }
      [] OTHER              -> { <<>>, <<"1">>, <<"o", "f", "f">>, <<"m", "a", "y", "b", "e">> }

\* the values the OS environment gives it
OsVals(dest) ==
    CASE dest = "directory" -> { <<"d", "3">>, <<"n", "o", "d", "i", "r">> }
      [] dest = "path"      -> { <<"l", "3">>, <<"n", "o", "f", "i", "l", "e">> }
      [] dest = "mode"      -> { <<"a", "l", "l">> }
      [] dest = "level"     -> { <<"e", "r", "r", "o", "r">> }
      [] dest \in {"top", "min_size"} -> { <<"1">>, <<"-", "2">> }
      [] dest = "timeout"   -> { <<"7">>, <<"-", "0", ".", "5">> }
      [] dest = "post"      -> { <<"u", "3">> }
      [] dest = "out"       -> { <<"o", "3">> }
      [] OTHER              -> { <<"Y", "E", "S">> }

\* the values the config file gives it
CfgVals(dest) ==
    CASE dest = "directory" -> { PStr(<<"d", "4">>), PStr(<<"n", "o", "d", "i", "r">>) }
      [] dest = "path"      -> { PStr(<<"l", "4">>), PStr(<<"d", "4">>) }
      [] dest = "mode"      -> { PStr(<<"a", "l", "l">>) }
      [] dest = "level"     -> { PStr(<<"i", "n", "f", "o">>) }
      [] dest \in {"top", "min_size"} -> { PInt(99), PStr(<<"a", "b", "c">>), None, PInt(-1) }
      [] dest = "timeout"   -> { PInt(3), PStr(<<"a", "b", "c">>), PInt(0) }
      [] dest = "post"      -> { PStr(<<"u", "4">>) }
      [] dest = "out"       -> { PStr(<<"o", "4">>) }
      [] OTHER              -> { PBool(TRUE), PBool(FALSE), PStr(<<"f", "a", "l", "s", "e">>) }

\* the env file: not named, named and unreadable, named and readable
EnvFileCases(dest) ==
    { [st |-> "none"], [st |-> "unreadable"], [st |-> "empty"] }
        \cup { [st |-> "has", v |-> x] : x \in EnvFileVals(dest) }

OsCases(dest) == { [st |-> "none"] } \cup { [st |-> "has", v |-> x] : x \in OsVals(dest) }

\* the config file: named by nobody, by --config, by the OS environment or by
\* both; not on disk, malformed, a JSON array, an object without the setting,
\* an object with it. Route "efile": named by a row of the env file, while the
\* OS environment names another one
ConfigCases(dest) ==
    { [route |-> "none", st |-> "none"] }
        \cup { [route |-> r, st |-> x] :
                 r \in {"cli", "env", "both"}, x \in {"missing", "broken", "list", "empty"} }
        \cup { [route |-> r, st |-> "has", v |-> x] :
                 r \in {"cli", "env", "both"}, x \in CfgVals(dest) }
        \cup { [route |-> "efile", st |-> "empty"] }
        \cup { [route |-> "efile", st |-> "has", v |-> x] : x \in CfgVals(dest) }

EnvFilePath == <<"e">>

CliConfigPath == <<"c", "1">>

EnvConfigFile == <<"c", "2">>

EnvFileConfigFile == <<"c", "3">>

JsonObject(d) == [kind |-> "json", data |-> [t |-> "dict", d |-> d]]

\* the config file the run is meant to read
ConfigFile(dest, cf) ==
    CASE cf.st = "broken" -> [kind |-> "garbage"]
      [] cf.st = "list"   -> [kind |-> "json", data |-> PList(<< PInt(1) >>)]
      [] cf.st = "empty"  -> JsonObject(EmptyDict)
      [] cf.st = "has"    -> JsonObject(dest :> cf.v)

\* the config file named by the environment when --config names another one
OtherConfigFile == JsonObject("top" :> PInt(55))

ArgvOf(tool, dest, form, ef, cf) ==
    PList( CliTokens(tool, dest, form)
           \o (IF cf.route \in {"cli", "both"} THEN << <<"-", "-", "c", "o", "n", "f", "i", "g">>, CliConfigPath >> ELSE <<>>)
           \o (IF ef.st # "none" THEN << <<"-", "-", "e", "n", "v", "-", "f", "i", "l", "e">>, EnvFilePath >> ELSE <<>>) )

OsEnvOf(tool, dest, os, cf) ==
    (IF os.st = "has" THEN EnvName(tool, dest) :> os.v ELSE EmptyDict)
    @@ (IF cf.route \in {"env", "both", "efile"} THEN EnvName(tool, "config") :> EnvConfigFile
        ELSE EmptyDict)

DiskOf(tool, dest, ef, cf) ==
    (LET row == IF cf.route = "efile"
                THEN << EnvName(tool, "config") \o <<"=">> \o EnvFileConfigFile >>
                ELSE <<>>
     IN  CASE ef.st = "empty" -> EnvFilePath :>
                                [kind |-> "text", rows |-> << <<"#", " ", "s", "e", "t", "t", "i", "n", "g", "s">>, <<>> >> \o row]
           [] ef.st = "has"   -> EnvFilePath :>
                                [kind |-> "text",
                                 rows |-> << <<"#", " ", "s", "e", "t", "t", "i", "n", "g", "s">>, <<"N", "O", "_", "E", "Q", "U", "A", "L", "_", "S", "I", "G", "N">>,
                                             EnvName(tool, dest) \o <<"=">> \o ef.v >> \o row]
           [] OTHER           -> EmptyDict)
    @@ (CASE cf.st = "missing" /\ cf.route = "both" -> EnvConfigFile :> OtherConfigFile
          [] cf.st = "missing" -> EmptyDict
          [] cf.route = "cli"  -> CliConfigPath :> ConfigFile(dest, cf)
          [] cf.route = "env"  -> EnvConfigFile :> ConfigFile(dest, cf)
          [] cf.route = "both" -> (CliConfigPath :> ConfigFile(dest, cf))
                                    @@ (EnvConfigFile :> OtherConfigFile)
          [] cf.route = "efile" -> (EnvFileConfigFile :> ConfigFile(dest, cf))
                                    @@ (EnvConfigFile :> OtherConfigFile)
          [] OTHER             -> EmptyDict)

Init ==
    /\ \E tool \in Tools : \E dest \in FocusDests(tool) :
       \E form \in CliForms(tool, dest) : \E ef \in EnvFileCases(dest) :
       \E os \in OsCases(dest) : \E cf \in ConfigCases(dest) :
          /\ program = tool
          /\ argv = ArgvOf(tool, dest, form, ef, cf)
          /\ os_env = OsEnvOf(tool, dest, os, cf)
          /\ disk = DiskOf(tool, dest, ef, cf)
    /\ sys_argv = <<>>
    /\ pc = "start"
    /\ args = None
    /\ cli_args = None
    /\ provided = {}
    /\ from_cli = FALSE
    /\ env_file = EmptyDict
    /\ loads = <<>>
    /\ exc = None
    /\ rc = None
    /\ out = <<>>
    /\ stream = <<>>
    /\ presented = <<>>
    /\ top_n = 0
    /\ count = 0
    /\ total_bytes = 0
    /\ heap = <<>>
    /\ stats = None
    /\ call = None
    /\ result = None
    /\ level_filter = <<>>
    /\ level_counter = EmptyDict
    /\ msg_counter = EmptyDict
    /\ by_message = <<>>
    /\ total = 0

Next ==
    \/ ParseArgs
    \/ ReadEnv
    \/ Merge
    \/ Validate
    \/ StartScan
    \/ Offer
    \/ Finalize
    \/ EmitJson
    \/ WriteOut
    \/ PostJson
    \/ Report

Spec == Init /\ [][Next]_vars

\* ------------------------------------------------------------------
\* Properties of settings resolution (checked under Spec)
\* ------------------------------------------------------------------

\* resolve_effective_args has been left, by return or by exception
AfterResolution == pc \notin {"start", "parsed", "env_read"}

\* resolve_effective_args has just returned the settings (no later step assigns args)
Resolved == pc = "resolved"

\* argv holds the token --name or a token --name=value
HasToken(tool, dest) ==
    /\ argv # None
    /\ \E i \in 1..Len(argv.items) :
          \/ argv.items[i] = OptOf(tool, dest)
          \/ startswith(argv.items[i], OptOf(tool, dest) \o <<"=">>)

OptionDests(tool) == Dests(tool) \ {Positional(tool)}

\* the settings that have an environment variable
EnvDests(tool) == { EnvSteps(tool)[i] : i \in 1..Len(EnvSteps(tool)) }

\* what the environment source holds for a setting: a str, or None
EnvValue(tool, dest) == get_env(os_env, EnvName(tool, dest), env_file)

\* what the config file that was read holds
LoadedConfig ==
    IF args["config"] # None THEN load_config(DiskAt(args["config"].p)) ELSE EmptyDict

\* C1: after settings resolution every option whose --name token is in argv,
\* bare or as --name=value, has exactly the value parsed from the command
\* line, whatever the env file, the OS environment and the config file hold.
C1_CliValueKept ==
    Resolved =>
        \A d \in OptionDests(program) : HasToken(program, d) => args[d] = cli_args[d]

\* --top 3 on the command line, TOP=2 in the environment, top=99 in the config
C1_Witness ==
    /\ Resolved
    /\ program = "dirscan"
    /\ HasToken("dirscan", "top")
    /\ EnvValue("dirscan", "top") = PStr(<<"2">>)
    /\ "top" \in DOMAIN LoadedConfig
    /\ LoadedConfig["top"] = PInt(99)
    /\ args["top"] = PInt(3)

\* the setting was given on the command line: by its --name token, or
\* positionally for the positional argument
OnCommandLine(tool, dest) ==
    IF dest = Positional(tool) THEN cli_args[dest] # None ELSE HasToken(tool, dest)

\* C2: a setting with no --name token in argv for which the environment
\* source (env file or OS environment) holds a non-empty value resolves to the
\* coerced environment value, even when the config file holds another value.
C2_EnvValueWins ==
    Resolved =>
        \A d \in EnvDests(program) :
            (~OnCommandLine(program, d) /\ EnvValue(program, d) # None) =>
                LET r == EnvCoerce(Conv(d), EnvValue(program, d).s)
                IN  r.ok /\ args[d] = r.v

\* no --top, TOP=2 in the environment, top=99 in the config: top is 2
C2_Witness ==
    /\ Resolved
    /\ program = "dirscan"
    /\ ~HasToken("dirscan", "top")
    /\ EnvValue("dirscan", "top") = PStr(<<"2">>)
    /\ "top" \in DOMAIN LoadedConfig
    /\ LoadedConfig["top"] = PInt(99)
    /\ args["top"] = PInt(2)

\* C3: the positional argument given on the command line is changed neither by
\* apply_config nor by apply_env; not given, the environment value wins over
\* the config value, and the config value over the built-in default (None).
C3_PositionalRule ==
    Resolved =>
        LET d == Positional(program)
            e == EnvValue(program, d)
        IN  args[d] = IF cli_args[d] # None THEN cli_args[d]
                      ELSE IF e # None THEN PPath(e.s)
                      ELSE IF d \in DOMAIN LoadedConfig THEN PPath(StrOf(LoadedConfig[d]))
                      ELSE None

\* the directory given positionally, named differently by the environment and
\* by the config file
C3_Witness ==
    /\ Resolved
    /\ program = "dirscan"
    /\ cli_args["directory"] = PPath(<<"d", "1">>)
    /\ EnvValue("dirscan", "directory") = PStr(<<"d", "2">>)
    /\ "directory" \in DOMAIN LoadedConfig
    /\ LoadedConfig["directory"] = PStr(<<"d", "4">>)
    /\ args["directory"] = PPath(<<"d", "1">>)

\* the name of a setting as an error message may spell it: the option name
\* without its dashes, or the name of its environment variable, in any case
Mentions(msg, tool, dest) ==
    LET opt == SubSeq(OptOf(tool, dest), 3, Len(OptOf(tool, dest)))
        var == SubSeq(EnvName(tool, dest), Len(EnvPrefix(tool)) + 1, Len(EnvName(tool, dest)))
    IN  Contains(lower(msg), lower(opt)) \/ Contains(lower(msg), lower(var))

BoolDests(tool) == { d \in EnvDests(tool) : Conv(d) = "bool" }

\* the string is one of the ten words parse_bool knows
InVocabulary(raw) == lower(strip(raw)) \in Truthy \cup Falsey

\* C9: when the environment source holds, for a boolean setting not given on
\* the command line, a string outside the truthy/falsey vocabulary, settings
\* resolution fails with an error naming the setting.
C9_BadBoolFails ==
    AfterResolution =>
        \A d \in BoolDests(program) :
            ( /\ ~HasToken(program, d)
              /\ EnvValue(program, d) # None
              /\ ~InVocabulary(EnvValue(program, d).s) )
            => (exc # None /\ Mentions(exc.msg, program, d))

NumberDests(tool) == { d \in EnvDests(tool) : Conv(d) \in {"int", "float"} }

\* the raw values that env and config hold for a setting and that its
\* conversion rejects, as text
Uncoercible(tool, dest) ==
    LET e == EnvValue(tool, dest)
    IN  (IF e # None /\ ~EnvCoerce(Conv(dest), e.s).ok THEN { e.s } ELSE {})
        \cup (IF dest \in DOMAIN LoadedConfig
                 /\ ~CfgCoerce(Conv(dest), LoadedConfig[dest]).ok
              THEN { StrOf(LoadedConfig[dest]) } ELSE {})

\* the run stopped with a non-zero exit before an item was taken from the
\* stream and before anything was printed, written or posted
AbortedBeforeWork ==
    /\ pc = "exit"
    /\ rc # None
    /\ rc # PInt(0)
    /\ presented = <<>>
    /\ out = <<>>

\* C10: when env or config holds, for an integer or float setting not given on
\* the command line, a value that cannot be coerced, the run aborts with a
\* non-zero exit and an error carrying the setting name and the raw value; no
\* item of the stream is consumed and nothing is printed, written or posted.
C10_BadNumberAborts ==
    AfterResolution =>
        \A d \in NumberDests(program) :
            (~HasToken(program, d) /\ Uncoercible(program, d) # {}) =>
                /\ AbortedBeforeWork
                /\ exc # None
                /\ Mentions(exc.msg, program, d)
                /\ \E raw \in Uncoercible(program, d) : Contains(exc.msg, raw)

\* what the code does keep of C10: the abort, and nothing done before it
BadNumberStopsTheRun ==
    AfterResolution =>
        \A d \in NumberDests(program) :
            (~HasToken(program, d) /\ Uncoercible(program, d) # {}) =>
                AbortedBeforeWork /\ exc # None

\* ------------------------------------------------------------------
\* Properties of validation and of the scan (checked under Spec)
\* ------------------------------------------------------------------

\* a resolved setting is outside its domain
DomainViolated ==
    \/ args["top"].i < 0
    \/ args["timeout"].tenths <= 0
    \/ program = "dirscan" /\ args["min_size"].i < 0
    \/ program = "dirscan" /\ PathKind(RootOf(args)) # "dir"
    \/ /\ program = "logsum"
       /\ args["path"] # None
       /\ args["path"].p # <<"-">>
       /\ PathKind(args["path"].p) # "file"

\* main is past validate_args (resolution did not raise)
AfterValidation == pc \notin {"start", "parsed", "env_read", "resolved"} /\ exc = None

\* C11: if a resolved setting violates its domain constraint (top < 0,
\* min_size < 0, timeout <= 0, a missing or wrong-kind input path), whatever
\* source it came from, main returns 2 before the first item of the stream is
\* pulled and without printing, writing or posting anything.
C11_InvalidSettingsStop ==
    (AfterValidation /\ DomainViolated) =>
        /\ pc = "exit"
        /\ rc = PInt(2)
        /\ presented = <<>>
        /\ stats = None
        /\ out = <<>>

\* timeout 0 taken from the config file stopped the run
C11_Witness ==
    /\ pc = "exit"
    /\ rc = PInt(2)
    /\ program = "dirscan"
    /\ ~HasToken("dirscan", "timeout")
    /\ "timeout" \in DOMAIN LoadedConfig
    /\ LoadedConfig["timeout"] = PInt(0)
    /\ args["timeout"] = PFloat(0)
    /\ out = <<>>

\* the environment source and the config map are both empty
SourcesEmpty ==
    /\ LoadedConfig = EmptyDict
    /\ \A d \in EnvDests(program) : EnvValue(program, d) = None

\* C12: merging an empty environment source and an empty config map leaves
\* every setting exactly as parsed from the command line.
C12_EmptySourcesChangeNothing ==
    (Resolved /\ SourcesEmpty) => args = cli_args

\* an empty config file and an empty env file were named and read, and the
\* command line gave a value
C12_Witness ==
    /\ Resolved
    /\ SourcesEmpty
    /\ loads # <<>>
    /\ cli_args["env_file"] # None
    /\ DiskAt(EnvFilePath).kind = "text"
    /\ cli_args["top"] = PInt(3)
    /\ args = cli_args

\* the nodes under root that iter_entries is to yield: counted by the mode,
\* stat succeeds, not smaller than min_size
Yielded(root, mode, min_size) ==
    LET Keep(n) == should_count(n, mode) /\ n.stat_ok /\ n.size >= min_size
        kept    == SelectSeq(Tree[root], Keep)
    IN  [i \in 1..Len(kept) |-> Entry(root \o <<"/">> \o kept[i].name, kept[i].size)]

RECURSIVE SumSizes(_)
SumSizes(s) == IF s = <<>> THEN 0 ELSE Head(s).size + SumSizes(Tail(s))

\* C14: an item whose stat raises OSError in iter_entries is skipped alone: it
\* is in neither count, total_bytes nor top, every other item before and after
\* it is aggregated, and the run does not abort.
C14_StatFailureSkipsOneItem ==
    (program = "dirscan" /\ pc = "computed") =>
        LET y == Yielded(RootOf(args), args["mode"].s, args["min_size"].i)
        IN  /\ presented = y
            /\ stats.count = Len(y)
            /\ stats.total_bytes = SumSizes(y)
            /\ \A n \in { Tree[RootOf(args)][i] : i \in 1..Len(Tree[RootOf(args)]) } :
                  ~n.stat_ok =>
                     \A e \in { stats.top[i] : i \in 1..Len(stats.top) } :
                        e.path # RootOf(args) \o <<"/">> \o n.name
            /\ exc = None
            /\ rc = None

\* d3 holds a, b (stat fails) and ab: a and ab were aggregated
C14_Witness ==
    /\ program = "dirscan"
    /\ pc = "computed"
    /\ RootOf(args) = <<"d", "3">>
    /\ presented = << Entry(<<"d", "3", "/", "a">>, 1), Entry(<<"d", "3", "/", "a", "b">>, 1) >>
    /\ stats.count = 2
    /\ stats.total_bytes = 2

\* resolve_effective_args after parse_args, as a function of what it reads:
\* the parsed Namespace, provided, directory_from_cli, os.environ, the env map
Resolve(tool, parsed, prov, fcli, osenv, envf) ==
    LET a1   == EnvConfigPath(tool, parsed, osenv, envf, prov)
        file == IF a1["config"] # None THEN DiskAt(a1["config"].p) ELSE [kind |-> "missing"]
    IN  MergeSources(tool, a1, file, osenv, envf, prov, fcli)

\* what resolution gave in this run: the settings, or the exception
Actual == IF exc = None THEN Ok(args) ELSE Raise(exc.type, exc.msg)

\* an outcome without the two settings that name the sources themselves
Outcome(r) ==
    IF r.ok THEN Ok([d \in (DOMAIN r.v) \ {"config", "env_file"} |-> r.v[d]]) ELSE r

\* resolve_effective_args has just been left, by return or by exception
JustResolved == pc = "resolved" \/ (pc = "exit" /\ exc # None /\ cli_args # None)

\* the file holds no readable JSON object / no readable text
Unusable(file, kind) ==
    IF kind = "json" THEN ~(file.kind = "json" /\ file.data.t = "dict") ELSE file.kind # "text"

ConfigUnusable == args["config"] # None /\ Unusable(DiskAt(args["config"].p), "json")

EnvFileUnusable ==
    cli_args["env_file"] # None /\ Unusable(DiskAt(cli_args["env_file"].p), "text")

\* a dict without a key
Without(d, key) == [k \in (DOMAIN d) \ {key} |-> d[k]]

Paths == { <<"a">>, <<"a", "b">>, <<"b">> }

Entries == { Entry(p, s) : p \in Paths, s \in 1..MaxSize }

Streams == UNION { [1..n -> Entries] : n \in 0..MaxItems }

InitStats ==
    /\ program = "dirscan"
    /\ argv = PList(<<>>)
    /\ sys_argv = <<>>
    /\ os_env = EmptyDict
    /\ disk = EmptyDict
    /\ args = Defaults("dirscan")
    /\ cli_args = Defaults("dirscan")
    /\ provided = {}
    /\ from_cli = FALSE
    /\ env_file = EmptyDict
    /\ loads = <<>>
    /\ exc = None
    /\ rc = None
    /\ out = <<>>
    /\ pc = "scan"
    /\ stream \in Streams
    /\ top_n \in 0..MaxTop
    /\ presented = <<>>
    /\ count = 0
    /\ total_bytes = 0
    /\ heap = <<>>
    /\ stats = None
    /\ call = None
    /\ result = None
    /\ level_filter = <<>>
    /\ level_counter = EmptyDict
    /\ msg_counter = EmptyDict
    /\ by_message = <<>>
    /\ total = 0

NextStats == Offer \/ Finalize

SpecStats == InitStats /\ [][NextStats]_vars

\* ------------------------------------------------------------------
\* Properties of compute_stats (checked under SpecStats)
\* ------------------------------------------------------------------

Range(s) == { s[i] : i \in 1..Len(s) }

CountIn(s, x) == Cardinality({ i \in 1..Len(s) : s[i] = x })

SameBag(s1, s2) ==
    \A x \in Range(s1) \cup Range(s2) : CountIn(s1, x) = CountIn(s2, x)

Min2(a, b) == IF a < b THEN a ELSE b

\* the entries of the stream that are not in the returned list (with multiplicity)
Discarded == { e \in Range(presented) : CountIn(presented, e) > CountIn(stats.top, e) }

\* C4: compute_stats returns exactly min(top_n, n) entries, all taken from the
\* stream, and every returned entry is at least as large as every entry that
\* was not returned; a stream shorter than top_n is returned whole.
C4_TopSizeAndDominance ==
    pc = "computed" =>
        /\ Len(stats.top) = Min2(top_n, Len(presented))
        /\ \A e \in Range(stats.top) : CountIn(stats.top, e) <= CountIn(presented, e)
        /\ \A r \in Range(stats.top) : \A d \in Discarded : r.size >= d.size
        /\ Len(presented) <= top_n => SameBag(stats.top, presented)

\* a run that had to drop a smaller entry
C4_Witness ==
    /\ pc = "computed"
    /\ top_n = 2
    /\ Len(presented) = 3
    /\ \E r \in Range(stats.top) : \E d \in Discarded : r.size > d.size

\* the first k elements of a list
FirstK(s, k) == SubSeq(s, 1, Min2(k, Len(s)))

\* C5: after every offer the heap holds the top_n best items presented so far
\* under "larger size first, on equal size the smaller path string first",
\* i.e. the first top_n items of the full sort by (size descending, path
\* ascending).
C5_HeapHoldsBestBySmallerKey ==
    pc \in {"scan", "computed"} =>
        SameBag(heap, FirstK(SortedTop(presented), top_n))

\* C6: Stats.top is ordered by descending size and, on equal size, by ascending
\* path string; top_n = 2 over sizes [2,2,1] with paths [b,a,ab] gives
\* [(2,a),(2,b)].
C6_TopOrdered ==
    pc = "computed" =>
        /\ \A i \in 1..Len(stats.top) : \A j \in 1..Len(stats.top) :
              i < j =>
                \/ stats.top[i].size > stats.top[j].size
                \/ /\ stats.top[i].size = stats.top[j].size
                   /\ ~StrLess(stats.top[j].path, stats.top[i].path)
        /\ ( /\ top_n = 2
             /\ presented = << Entry(<<"b">>, 2), Entry(<<"a">>, 2), Entry(<<"a", "b">>, 1) >> )
           => stats.top = << Entry(<<"a">>, 2), Entry(<<"b">>, 2) >>

\* the scenario of the specification has been computed
C6_Witness ==
    /\ pc = "computed"
    /\ top_n = 2
    /\ presented = << Entry(<<"b">>, 2), Entry(<<"a">>, 2), Entry(<<"a", "b">>, 1) >>
    /\ Len(stats.top) = 2

\* the heap after an offer of e is the heap before with one minimum taken out
\* and e put in
ReplacedMinimum(h, h2, e) ==
    /\ Len(h2) = Len(h)
    /\ \E m \in Range(h) :
          /\ \A x \in Range(h) : ~ItemLess(x, m)
          /\ \A x \in Range(h) \cup Range(h2) \cup {e} :
                CountIn(h2, x) + (IF x = m THEN 1 ELSE 0)
                    = CountIn(h, x) + (IF x = e THEN 1 ELSE 0)

\* C7: the heap never holds more than top_n items; an offer adds one item
\* while the heap has fewer than top_n items, and afterwards it either replaces
\* the minimum by the offered item or leaves the heap unchanged.
C7_HeapBounded ==
    [][ /\ Len(heap) <= top_n
        /\ Len(heap') <= top_n
        /\ presented' # presented =>
              LET e == presented'[Len(presented')]
              IN  IF Len(heap) < top_n
                  THEN /\ Len(heap') = Len(heap) + 1
                       /\ SameBag(heap', Append(heap, e))
                  ELSE \/ heap' = heap
                       \/ ReplacedMinimum(heap, heap', e) ]_vars

\* a full heap has been offered a further item
C7_Witness ==
    /\ top_n > 0
    /\ Len(heap) = top_n
    /\ Len(presented) > top_n

\* C13: compute_stats counts every item of the stream and sums every item's
\* size whatever top_n is; with top_n = 0 the top list is empty while count and
\* total_bytes are those of any other top_n.
C13_CountsEveryItem ==
    /\ pc \in {"scan", "computed"} =>
          /\ count = Len(presented)
          /\ total_bytes = SumSizes(presented)
    /\ pc = "computed" =>
          /\ stats.count = Len(presented)
          /\ stats.total_bytes = SumSizes(presented)
          /\ top_n = 0 => stats.top = <<>>

\* three items were counted with top_n = 0
C13_Witness ==
    /\ pc = "computed"
    /\ top_n = 0
    /\ Len(presented) = 3
    /\ stats.count = 3
    /\ stats.total_bytes = SumSizes(presented)
    /\ stats.top = <<>>

\* ------------------------------------------------------------------
\* The toolkit functions on their own: one call, any arguments
\* ------------------------------------------------------------------

\* longest token list handed to parse_provided_options
MaxTokens == 2

\* argv tokens: options bare and with =value, with several "=", the bare "--",
\* a short option, a positional, a token with "--" not at its start
Tokens == { <<"-", "-", "t", "o", "p">>, <<"-", "-", "t", "o", "p", "=", "3">>, <<"-", "-", "x", "=", "1", "=", "2">>, <<"-", "-">>, <<"-", "v">>, <<"d", "1">>, <<"=", "-", "-", "a">> }

TokenLists == UNION { [1..n -> Tokens] : n \in 0..MaxTokens }

\* the spellings of a word: as it is, in capitals, with a capital first letter
Spellings(w) ==
    { w, upper(w), <<UpperChar(Head(w))>> \o Tail(w) }

\* whitespace put around a value
Padding == { <<>>, <<" ">>, <<"\t", " ">> }

\* strings handed to parse_bool: the word meant and the string written
BoolWords == Truthy \cup Falsey \cup { <<"m", "a", "y", "b", "e">> }

BoolStrings ==
    UNION { { [word |-> w, value |-> l \o v \o r] :
                 v \in Spellings(w), l \in Padding, r \in Padding } : w \in BoolWords }
      \cup { [word |-> <<>>, value |-> <<>>] }

\* the name looked up and what the two sources may hold for it
EnvKey == <<"K">>

EnvMaps == { EmptyDict } \cup { EnvKey :> v : v \in { <<>>, <<"A">>, <<"B">> } }

Calls ==
    { [fn |-> "get_env", name |-> EnvKey, envf |-> e, osenv |-> o] :
         e \in EnvMaps, o \in EnvMaps }
      \cup { [fn |-> "parse_bool", word |-> b.word, value |-> b.value] : b \in BoolStrings }
      \cup { [fn |-> "parse_provided_options", argv |-> a] :
               a \in { None } \cup { PList(l) : l \in TokenLists } }

InitToolkit ==
    /\ program = "dirscan"
    /\ argv = PList(<<>>)
    /\ sys_argv = <<>>
    /\ os_env = EmptyDict
    /\ disk = EmptyDict
    /\ args = Defaults("dirscan")
    /\ cli_args = Defaults("dirscan")
    /\ provided = {}
    /\ from_cli = FALSE
    /\ env_file = EmptyDict
    /\ loads = <<>>
    /\ exc = None
    /\ rc = None
    /\ out = <<>>
    /\ stream = <<>>
    /\ top_n = 0
    /\ presented = <<>>
    /\ count = 0
    /\ total_bytes = 0
    /\ heap = <<>>
    /\ stats = None
    /\ level_filter = <<>>
    /\ level_counter = EmptyDict
    /\ msg_counter = EmptyDict
    /\ by_message = <<>>
    /\ total = 0
    /\ pc = "call"
    /\ call \in Calls
    /\ result = None

\* v = toolkit.get_env(name, env_file)
CallGetEnv ==
    /\ pc = "call"
    /\ call.fn = "get_env"
    /\ result' = get_env(call.osenv, call.name, call.envf)
    /\ pc' = "returned"
    /\ UNCHANGED <<inputVars, mainVars, statVars, logVars, call>>

\* toolkit.parse_bool(v)
CallParseBool ==
    /\ pc = "call"
    /\ call.fn = "parse_bool"
    /\ result' = PBool(parse_bool(call.value))
    /\ pc' = "returned"
    /\ UNCHANGED <<inputVars, mainVars, statVars, logVars, call>>

\* provided = toolkit.parse_provided_options(argv)
CallParseProvidedOptions ==
    /\ pc = "call"
    /\ call.fn = "parse_provided_options"
    /\ result' = parse_provided_options(call.argv)
    /\ pc' = "returned"
    /\ UNCHANGED <<inputVars, mainVars, statVars, logVars, call>>

NextToolkit == CallGetEnv \/ CallParseBool \/ CallParseProvidedOptions

SpecToolkit == InitToolkit /\ [][NextToolkit]_vars

\* ------------------------------------------------------------------
\* Properties of the toolkit functions (checked under SpecToolkit)
\* ------------------------------------------------------------------

Returned(fn) == pc = "returned" /\ call.fn = fn

\* the source holds a non-empty string for the name
Holds(map, name) == name \in DOMAIN map /\ map[name] # <<>>

\* C16: get_env returns the env-file value whenever the env-file map holds a
\* non-empty value for the name, even if the OS environment holds another; an
\* empty string in either source counts as absent, so it falls back to the OS
\* value and, if that is absent or empty too, returns None.
C16_EnvFileFirst ==
    Returned("get_env") =>
        /\ Holds(call.envf, call.name) => result = PStr(call.envf[call.name])
        /\ (~Holds(call.envf, call.name) /\ Holds(call.osenv, call.name)) =>
              result = PStr(call.osenv[call.name])
        /\ (~Holds(call.envf, call.name) /\ ~Holds(call.osenv, call.name)) => result = None

\* the env file says A, the OS environment says B: A
C16_Witness ==
    /\ Returned("get_env")
    /\ call.envf = (EnvKey :> <<"A">>)
    /\ call.osenv = (EnvKey :> <<"B">>)
    /\ result = PStr(<<"A">>)

\* C17: parse_bool maps each of 1, true, yes, y, on to True and each of 0,
\* false, no, n, off to False, whatever the letter case and the whitespace
\* around the word.
C17_VocabularyAnyCase ==
    Returned("parse_bool") =>
        /\ call.word \in { <<"1">>, <<"t", "r", "u", "e">>, <<"y", "e", "s">>, <<"y">>, <<"o", "n">> } => result = PBool(TRUE)
        /\ call.word \in { <<"0">>, <<"f", "a", "l", "s", "e">>, <<"n", "o">>, <<"n">>, <<"o", "f", "f">> } => result = PBool(FALSE)

\* " OFF" with whitespace on both sides is False
C17_Witness ==
    /\ Returned("parse_bool")
    /\ call.word = <<"o", "f", "f">>
    /\ call.value = <<" ", "O", "F", "F", "\t", " ">>
    /\ result = PBool(FALSE)

\* the option name of a token: the part before its first "="
NameOfToken(t) ==
    CHOOSE n \in { SubSeq(t, 1, k) : k \in 0..Len(t) } :
        /\ \A i \in 1..Len(n) : n[i] # "="
        /\ (n = t \/ t[Len(n) + 1] = "=")

\* C18: parse_provided_options returns exactly the set of option names of the
\* tokens that begin with "--", each cut at its first "="; unknown names are
\* included, other tokens contribute nothing, and an empty or absent (None)
\* token list gives the empty set.
C18_ProvidedNames ==
    Returned("parse_provided_options") =>
        IF call.argv = None THEN result = {}
        ELSE LET toks == call.argv.items
                 opts == { i \in 1..Len(toks) :
                             Len(toks[i]) >= 2 /\ toks[i][1] = "-" /\ toks[i][2] = "-" }
             IN  result = { NameOfToken(toks[i]) : i \in opts }

\* --x=1=2 next to a positional: the unknown name --x alone
C18_Witness ==
    /\ Returned("parse_provided_options")
    /\ call.argv = PList(<< <<"-", "-", "x", "=", "1", "=", "2">>, <<"d", "1">> >>)
    /\ result = { <<"-", "-", "x">> }

\* ------------------------------------------------------------------
\* Properties of the config path (checked under Spec)
\* ------------------------------------------------------------------

\* resolve_effective_args has gone past the reading of the config file
ConfigStepDone == cli_args # None /\ pc \notin {"start", "parsed", "env_read"}

\* the path the precedence names: --config, else the env file's value, else
\* the OS value, else nothing
NamedConfig ==
    LET name == EnvName(program, "config")
    IN  IF HasToken(program, "config") THEN << cli_args["config"].p >>
        ELSE IF Holds(env_file, name) THEN << env_file[name] >>
        ELSE IF Holds(os_env, name) THEN << os_env[name] >>
        ELSE <<>>

\* C19: the config path is settled before the config file is read, with the
\* precedence --config > environment (env file, then OS) > none: the files read
\* as config in a run are exactly the one file that precedence names (none if
\* it names none), read once, and the path stays the resolved one afterwards.
C19_ConfigPathBeforeLoad ==
    /\ ConfigStepDone => loads = NamedConfig
    /\ Resolved => args["config"] = (IF loads = <<>> THEN None ELSE PPath(loads[1]))

\* --config names c1 and the OS environment names c2: c1 is read, once
C19_Witness ==
    /\ Resolved
    /\ HasToken(program, "config")
    /\ Holds(os_env, EnvName(program, "config"))
    /\ os_env[EnvName(program, "config")] = EnvConfigFile
    /\ loads = << CliConfigPath >>

\* the env file names c3 and the OS environment names c2: c3 is read
EnvFileNamesTheConfig ==
    /\ Resolved
    /\ Holds(env_file, EnvName(program, "config"))
    /\ Holds(os_env, EnvName(program, "config"))
    /\ loads = << EnvFileConfigFile >>

\* ------------------------------------------------------------------
\* logsum: compute_stats(records, level_filter, top_n)
\* ------------------------------------------------------------------

\* Record(level, message)
Record(l, m) == [level |-> l, message |-> m]

\* counter[k] += 1  on a Counter
CounterAdd(c, k) ==
    IF k \in DOMAIN c THEN [c EXCEPT ![k] = @ + 1] ELSE c @@ (k :> 1)

\* items = [(c, m) for m, c in msg_counter.items()]; one pair per message
Items(c) == { [count |-> c[m], message |-> m] : m \in DOMAIN c }

\* key=lambda t: (t[0], -len(t[1]), t[1])  compared with <
NLargestKeyLess(a, b) ==
    \/ a.count < b.count
    \/ /\ a.count = b.count
       /\ \/ Len(a.message) > Len(b.message)
          \/ Len(a.message) = Len(b.message) /\ StrLess(a.message, b.message)

\* heapq.nlargest(n, items, key): the n items of greatest key, greatest first
\* (the keys of two items differ, as their messages do)
RECURSIVE nlargest(_, _)
nlargest(n, items) ==
    IF n <= 0 \/ items = {} THEN <<>>
    ELSE LET mx == CHOOSE x \in items : \A y \in items \ {x} : NLargestKeyLess(y, x)
         IN  <<mx>> \o nlargest(n - 1, items \ {mx})

\* key=lambda t: (-t[0], t[1])  compared with <
MessageKeyLess(a, b) ==
    \/ a.count > b.count
    \/ a.count = b.count /\ StrLess(a.message, b.message)

RECURSIVE InsertMessage(_, _)
InsertMessage(s, x) ==
    IF s = <<>> THEN <<x>>
    ELSE IF MessageKeyLess(x, Head(s)) THEN <<x>> \o s
    ELSE <<Head(s)>> \o InsertMessage(Tail(s), x)

\* sorted(top_messages, key=lambda t: (-t[0], t[1]))
RECURSIVE SortedMessages(_)
SortedMessages(s) ==
    IF s = <<>> THEN <<>>
    ELSE InsertMessage(SortedMessages(SubSeq(s, 1, Len(s) - 1)), s[Len(s)])

\* the Stats compute_stats returns
LogStats(t, levels, msgs, n) ==
    [total_lines   |-> t,
     level_counts  |-> levels,
     top_messages  |-> IF n > 0 /\ DOMAIN msgs # {}
                       THEN SortedMessages(nlargest(n, Items(msgs)))
                       ELSE <<>>]

\* [A-Za-z]
Letters == { LowerCase[i] : i \in 1..Len(LowerCase) } \cup { UpperCase[i] : i \in 1..Len(UpperCase) }

\* the length of the longest run of characters of a class that starts at s[from]
RunLen(s, from, class) ==
    LET run == { k \in 1..(Len(s) - from + 1) : \A i \in from..(from + k - 1) : s[i] \in class }
    IN  IF run = {} THEN 0 ELSE CHOOSE x \in run : \A y \in run : y <= x

\* parse_line(line): a Record, or None for a blank line.  _BRACKET_RE is
\* [level] msg, _COLON_RE is level : msg, the level made of letters
parse_line(line) ==
    LET s  == strip(line)
        kb == IF s # <<>> /\ s[1] = "[" THEN RunLen(s, 2, Letters) ELSE 0
        kc == RunLen(s, 1, Letters)
        sp == RunLen(s, kc + 1, {" ", "\t", "\n"})
    IN  IF s = <<>> THEN None
        ELSE IF kb > 0 /\ kb + 2 <= Len(s) /\ s[kb + 2] = "]"
        THEN Record(upper(SubSeq(s, 2, kb + 1)), strip(SubSeq(s, kb + 3, Len(s))))
        ELSE IF kc > 0 /\ kc + sp + 1 <= Len(s) /\ s[kc + sp + 1] = ":"
        THEN Record(upper(SubSeq(s, 1, kc)), strip(SubSeq(s, kc + sp + 2, Len(s))))
        ELSE Record(<<"U", "N", "K", "N", "O", "W", "N">>, s)

\* the lines _open_lines returns: both forms of a record, a blank line, a line
\* of neither form
LogStreams ==
    UNION { [1..n -> { <<"[", "I", "N", "F", "O", "]", " ", "a">>, <<"W", "A", "R", "N", ":", " ", "b">>, <<"[", "i", "n", "f", "o", "]", "a", "b">>, <<" ">>, <<"i", "n", "f", "o", " ", ":", "a">>, <<"[", "1", "]", " ", "b">> }] :
              n \in 0..MaxItems }

LevelFilters == { <<>>, <<"i", "n", "f", "o">> }

InitLog ==
    /\ program = "logsum"
    /\ argv = PList(<<>>)
    /\ sys_argv = <<>>
    /\ os_env = EmptyDict
    /\ disk = EmptyDict
    /\ args = Defaults("logsum")
    /\ cli_args = Defaults("logsum")
    /\ provided = {}
    /\ from_cli = FALSE
    /\ env_file = EmptyDict
    /\ loads = <<>>
    /\ exc = None
    /\ rc = None
    /\ out = <<>>
    /\ presented = <<>>
    /\ count = 0
    /\ total_bytes = 0
    /\ heap = <<>>
    /\ stats = None
    /\ result = None
    /\ pc = "log_scan"
    /\ stream \in LogStreams
    /\ call = [fn |-> "compute_stats", lines |-> stream]
    /\ top_n \in 0..MaxTop
    /\ level_filter \in LevelFilters
    /\ level_counter = EmptyDict
    /\ msg_counter = EmptyDict
    /\ by_message = <<>>
    /\ total = 0

\* the loop comparing the level with the filter as it was given
CountFilterAsGiven ==
    /\ pc = "log_scan"
    /\ stream # <<>>
    /\ LET r == parse_line(Head(stream))
       IN  /\ stream' = Tail(stream)
           /\ presented' = IF r = None THEN presented ELSE Append(presented, r)
           /\ IF r = None \/ (level_filter # <<>> /\ r.level # level_filter)
              THEN UNCHANGED <<total, level_counter, msg_counter>>
              ELSE /\ total' = total + 1
                   /\ level_counter' = CounterAdd(level_counter, r.level)
                   /\ msg_counter' = CounterAdd(msg_counter, r.message)
    /\ UNCHANGED <<callVars, inputVars, mainVars, pc, level_filter, by_message,
                   top_n, count, total_bytes, heap, stats>>

\* the next line goes through iter_records_from_text (a blank line yields
\* nothing) and the record through one pass of  for r in records
Count ==
    /\ pc = "log_scan"
    /\ stream # <<>>
    /\ LET r == parse_line(Head(stream))
           level_filter_norm == upper(strip(level_filter))
       IN  /\ stream' = Tail(stream)
           /\ presented' = IF r = None THEN presented ELSE Append(presented, r)
           /\ IF r = None \/ (level_filter_norm # <<>> /\ r.level # level_filter_norm)
              THEN UNCHANGED <<total, level_counter, msg_counter>>
              ELSE /\ total' = total + 1
                   /\ level_counter' = CounterAdd(level_counter, r.level)
                   /\ msg_counter' = CounterAdd(msg_counter, r.message)
    /\ UNCHANGED <<callVars, inputVars, mainVars, pc, level_filter, by_message,
                   top_n, count, total_bytes, heap, stats>>

\* the records are exhausted: the top messages are taken and Stats returned
TopMessages ==
    /\ pc = "log_scan"
    /\ stream = <<>>
    /\ stats' = LogStats(total, level_counter, msg_counter, top_n)
    /\ pc' = "log_computed"
    /\ UNCHANGED <<callVars, logVars, inputVars, mainVars, stream, presented, top_n,
                   count, total_bytes, heap>>

NextLog == Count \/ TopMessages

SpecLog == InitLog /\ [][NextLog]_vars

\* ------------------------------------------------------------------
\* Properties of the log statistics (checked under SpecLog)
\* ------------------------------------------------------------------

LogComputed == pc = "log_computed"

\* the place of a (count, message) pair among all pairs ordered by count
\* descending and, on equal count, message ascending
PlaceOf(p, pairs) ==
    1 + Cardinality({ q \in pairs :
                        \/ q.count > p.count
                        \/ q.count = p.count /\ StrLess(q.message, p.message) })

\* C20: compute_stats returns as top_messages exactly the first top_n of all
\* distinct (count, message) pairs sorted by count descending and, on equal
\* count, by message ascending; among messages tied on count at the cut-off the
\* lexicographically smaller ones are selected.
C20_FirstByCountThenMessage ==
    LogComputed =>
        LET pairs == Items(msg_counter)
            k     == IF top_n < Cardinality(pairs) THEN top_n ELSE Cardinality(pairs)
        IN  stats.top_messages = [i \in 1..k |-> CHOOSE p \in pairs : PlaceOf(p, pairs) = i]

\* what the code selects instead: messages a and b seen once each, top_n = 1,
\* and b is returned
TiedMessagesKeepTheLarger ==
    /\ LogComputed
    /\ top_n = 1
    /\ msg_counter = (<<"a">> :> 1) @@ (<<"b">> :> 1)
    /\ stats.top_messages = << [count |-> 1, message |-> <<"b">>] >>

\* ------------------------------------------------------------------
\* logsum of Day26: parse_record and compute_log_stats(lines, fmt, top_n)
\* ------------------------------------------------------------------

\* [A-Za-z0-9_]
IsWordChar(c) ==
    \/ IsDigit(c)
    \/ c = "_"
    \/ \E i \in 1..Len(LowerCase) : c = LowerCase[i] \/ c = UpperCase[i]

\* _BRACKET_RE.match(s): the length of the level group, 0 when s does not match
BracketLevelLen(s) ==
    IF s = <<>> \/ s[1] # "[" THEN 0
    ELSE LET run == { k \in 1..(Len(s) - 1) : \A i \in 2..(k + 1) : IsWordChar(s[i]) }
             k   == IF run = {} THEN 0 ELSE CHOOSE x \in run : \A y \in run : y <= x
         IN  IF k > 0 /\ k + 2 <= Len(s) /\ s[k + 2] = "]" THEN k ELSE 0

\* a line of the log: its text without the newline, and what json.loads gives
\* for the stripped text ("error": it raises)
LogLine(text, js) == [text |-> text, json |-> js]

JsonError == [kind |-> "error"]

\* parse_record(line, fmt, logger): (level, msg)
parse_record(line, fmt) ==
    LET raw == line.text
        s   == strip(raw)
    IN  CASE fmt = "raw" -> [level |-> <<"R", "A", "W">>, msg |-> s]
          [] fmt = "bracket" ->
                LET k == BracketLevelLen(s)
                IN  IF k = 0 THEN [level |-> <<"U", "N", "K", "N", "O", "W", "N">>, msg |-> s]
                    ELSE [level |-> upper(SubSeq(s, 2, k + 1)),
                          msg   |-> strip(SubSeq(s, k + 3, Len(s)))]
          [] fmt = "jsonl" ->
                IF s = <<>> THEN [level |-> <<"E", "M", "P", "T", "Y">>, msg |-> <<>>]
                ELSE IF line.json.kind = "error" \/ line.json.data.t # "dict"
                THEN [level |-> <<"P", "A", "R", "S", "E", "_", "E", "R", "R", "O", "R">>,
                      msg   |-> SubSeq(s, 1, IF Len(s) < 200 THEN Len(s) ELSE 200)]
                ELSE LET obj == line.json.data.d
                         get(k, dflt) == IF k \in DOMAIN obj THEN obj[k] ELSE dflt
                     IN  [level |-> upper(StrOf(get("level", PStr(<<"U", "N", "K", "N", "O", "W", "N">>)))),
                          msg   |-> StrOf(get("message", get("msg", PStr(<<>>))))]
          [] OTHER -> [level |-> <<"U", "N", "K", "N", "O", "W", "N">>, msg |-> s]

\* by_message[msg] += 1  on a Counter, which keeps the order of first insertion
CountMessage(c, m) ==
    IF \E i \in 1..Len(c) : c[i].message = m
    THEN [i \in 1..Len(c) |-> IF c[i].message = m
                              THEN [c[i] EXCEPT !.count = @ + 1] ELSE c[i]]
    ELSE Append(c, [message |-> m, count |-> 1])

\* sorted(items, key=count, reverse=True) is stable: an item goes after the
\* items whose count is not smaller
RECURSIVE InsertByCount(_, _)
InsertByCount(s, x) ==
    IF s = <<>> THEN <<x>>
    ELSE IF x.count > Head(s).count THEN <<x>> \o s
    ELSE <<Head(s)>> \o InsertByCount(Tail(s), x)

RECURSIVE SortedByCount(_)
SortedByCount(c) ==
    IF c = <<>> THEN <<>>
    ELSE InsertByCount(SortedByCount(SubSeq(c, 1, Len(c) - 1)), c[Len(c)])

\* Counter.most_common(n) = heapq.nlargest(n, items, key=count)
most_common(c, n) ==
    LET srt == SortedByCount(c)
    IN  SubSeq(srt, 1, IF n < Len(srt) THEN n ELSE Len(srt))

\* the lines handed to compute_log_stats
LogLines ==
    { LogLine(<<"[", "i", "n", "f", "o", "]", " ", "a">>, JsonError),
      LogLine(<<"b">>, JsonError),
      LogLine(<<>>, JsonError),
      LogLine(<<"[", "1", "]">>, [kind |-> "json", data |-> PList(<< PInt(1) >>)]),
      LogLine(<<"{", "\"", "l", "e", "v", "e", "l", "\"", ":", "\"", "w", "a", "r", "n", "\"", ",", "\"", "m", "s", "g", "\"", ":", "\"", "a", "\"", "}">>,
              JsonObject(("level" :> PStr(<<"w", "a", "r", "n">>)) @@ ("msg" :> PStr(<<"a">>)))),
      LogLine(<<"{", "\"", "m", "e", "s", "s", "a", "g", "e", "\"", ":", "\"", "b", "\"", "}">>, JsonObject("message" :> PStr(<<"b">>))) }

LineStreams == UNION { [1..n -> LogLines] : n \in 0..MaxItems }

Formats == { "raw", "bracket", "jsonl" }

InitLines ==
    /\ program = "logsum"
    /\ argv = PList(<<>>)
    /\ sys_argv = <<>>
    /\ os_env = EmptyDict
    /\ disk = EmptyDict
    /\ args = Defaults("logsum")
    /\ cli_args = Defaults("logsum")
    /\ provided = {}
    /\ from_cli = FALSE
    /\ env_file = EmptyDict
    /\ loads = <<>>
    /\ exc = None
    /\ rc = None
    /\ out = <<>>
    /\ count = 0
    /\ total_bytes = 0
    /\ heap = <<>>
    /\ stats = None
    /\ result = None
    /\ level_filter = <<>>
    /\ msg_counter = EmptyDict
    /\ pc = "lines"
    /\ call \in { [fn |-> "compute_log_stats", fmt |-> f] : f \in Formats }
    /\ stream \in LineStreams
    /\ top_n \in 0..MaxTop
    /\ presented = <<>>
    /\ total = 0
    /\ level_counter = EmptyDict
    /\ by_message = <<>>

\* the loop with blank lines passed over before they are counted
CountLineSkipBlank ==
    /\ pc = "lines"
    /\ stream # <<>>
    /\ LET r == parse_record(Head(stream), call.fmt)
           blank == strip(Head(stream).text) = <<>>
       IN  /\ stream' = Tail(stream)
           /\ presented' = Append(presented, Head(stream))
           /\ total' = IF blank THEN total ELSE total + 1
           /\ level_counter' = IF blank THEN level_counter
                               ELSE CounterAdd(level_counter, r.level)
           /\ by_message' = IF r.msg # <<>> THEN CountMessage(by_message, r.msg)
                            ELSE by_message
    /\ UNCHANGED <<callVars, inputVars, mainVars, pc, level_filter, msg_counter, top_n,
                   count, total_bytes, heap, stats>>

\* one pass of the loop  for line in lines
CountLine ==
    /\ pc = "lines"
    /\ stream # <<>>
    /\ LET r == parse_record(Head(stream), call.fmt)
       IN  /\ stream' = Tail(stream)
           /\ presented' = Append(presented, Head(stream))
           /\ total' = total + 1
           /\ level_counter' = CounterAdd(level_counter, r.level)
           /\ by_message' = IF r.msg # <<>> THEN CountMessage(by_message, r.msg)
                            ELSE by_message
    /\ UNCHANGED <<callVars, inputVars, mainVars, pc, level_filter, msg_counter, top_n,
                   count, total_bytes, heap, stats>>

\* the lines are exhausted: most_common and LogStats
MostCommon ==
    /\ pc = "lines"
    /\ stream = <<>>
    /\ stats' = [total_lines  |-> total,
                 by_level     |-> level_counter,
                 top_messages |-> IF top_n > 0 THEN most_common(by_message, top_n) ELSE <<>>]
    /\ pc' = "lines_done"
    /\ UNCHANGED <<callVars, logVars, inputVars, mainVars, stream, presented, top_n,
                   count, total_bytes, heap>>

NextLines == CountLine \/ MostCommon

SpecLines == InitLines /\ [][NextLines]_vars

\* ------------------------------------------------------------------
\* Properties of compute_log_stats (checked under SpecLines)
\* ------------------------------------------------------------------

LinesDone == pc = "lines_done"

\* how many of the lines read carry the message m
Occurrences(m) ==
    Cardinality({ i \in 1..Len(presented) : parse_record(presented[i], call.fmt).msg = m })

\* the messages seen in the lines read
SeenMessages ==
    { parse_record(presented[i], call.fmt).msg : i \in 1..Len(presented) } \ { <<>> }

\* C21: compute_log_stats returns at most top_n distinct messages, each with
\* its exact number of occurrences in the stream, ordered by descending count
\* and, among messages of equal count, by ascending message text; no omitted
\* message has a higher count than a listed one.
C21_TopMessagesRanked ==
    LinesDone =>
        LET top == stats.top_messages
        IN  /\ Len(top) <= top_n
            /\ \A i, j \in 1..Len(top) : i < j => top[i].message # top[j].message
            /\ \A i \in 1..Len(top) : top[i].count = Occurrences(top[i].message)
            /\ \A i, j \in 1..Len(top) : i < j =>
                  \/ top[i].count > top[j].count
                  \/ top[i].count = top[j].count /\ StrLess(top[i].message, top[j].message)
            /\ \A m \in SeenMessages :
                  (\A i \in 1..Len(top) : top[i].message # m) =>
                      \A i \in 1..Len(top) : Occurrences(m) <= top[i].count

\* what the code returns on a tie: the message seen first, here b before a
TiedMessagesInOrderOfFirstSight ==
    /\ LinesDone
    /\ call.fmt = "raw"
    /\ Len(presented) = 2
    /\ presented[1].text = <<"b">>
    /\ stats.top_messages = << [message |-> <<"b">>, count |-> 1],
                               [message |-> <<"[", "i", "n", "f", "o", "]", " ", "a">>, count |-> 1] >>

RECURSIVE SumOver(_, _)
SumOver(f, keys) ==
    IF keys = {} THEN 0
    ELSE LET k == CHOOSE x \in keys : TRUE IN f[k] + SumOver(f, keys \ {k})

RECURSIVE SumCounts(_)
SumCounts(top) == IF top = <<>> THEN 0 ELSE Head(top).count + SumCounts(Tail(top))

\* the line does not have the form the format asks for
Unmatched(line, fmt) ==
    LET s == strip(line.text)
    IN  CASE fmt = "bracket" -> ~(\E k \in 1..Len(s) :
                                     /\ s[1] = "["
                                     /\ k >= 3
                                     /\ s[k] = "]"
                                     /\ \A i \in 2..(k - 1) : IsWordChar(s[i]))
          [] fmt = "jsonl"   -> s = <<>> \/ line.json.kind = "error" \/ line.json.data.t # "dict"
          [] OTHER           -> FALSE

LevelCount(l) == IF l \in DOMAIN level_counter THEN level_counter[l] ELSE 0

\* C22: every line, parsable or not, increments total_lines and exactly one
\* level counter (UNKNOWN, PARSE_ERROR or EMPTY for the lines that do not match
\* the format) and none makes the aggregation fail: total_lines is the number
\* of lines and the sum of the by_level counts, and the counts in top_messages
\* sum to at most total_lines.
C22_EveryLineCounted ==
    /\ pc \in {"lines", "lines_done"} =>
          /\ exc = None
          /\ total = Len(presented)
          /\ SumOver(level_counter, DOMAIN level_counter) = total
          /\ Cardinality({ i \in 1..Len(presented) : Unmatched(presented[i], call.fmt) })
                <= LevelCount(<<"U", "N", "K", "N", "O", "W", "N">>) + LevelCount(<<"P", "A", "R", "S", "E", "_", "E", "R", "R", "O", "R">>) + LevelCount(<<"E", "M", "P", "T", "Y">>)
    /\ LinesDone =>
          /\ stats.total_lines = Len(presented)
          /\ SumOver(stats.by_level, DOMAIN stats.by_level) = stats.total_lines
          /\ SumCounts(stats.top_messages) <= stats.total_lines

\* three jsonl lines: a blank one, a JSON array and text that is not JSON
C22_Witness ==
    /\ LinesDone
    /\ call.fmt = "jsonl"
    /\ stats.total_lines = 3
    /\ stats.by_level = (<<"E", "M", "P", "T", "Y">> :> 1) @@ (<<"P", "A", "R", "S", "E", "_", "E", "R", "R", "O", "R">> :> 2)
    /\ \E i \in 1..3 : presented[i].text = <<>>
    /\ \E i \in 1..3 : presented[i].text = <<"[", "1", "]">>

\* ------------------------------------------------------------------
\* Properties of the level filter (checked under SpecLog)
\* ------------------------------------------------------------------

\* the records that pass the filter: all of them when the trimmed filter is
\* empty, else those whose level is the trimmed, upper-cased filter
Selected ==
    LET f == upper(strip(level_filter))
    IN  { i \in 1..Len(presented) : f = <<>> \/ presented[i].level = f }

\* the lines that are not blank
NonBlank == { i \in 1..Len(call.lines) : \E j \in 1..Len(call.lines[i]) : ~IsSpace(call.lines[i][j]) }

\* C23: with a non-empty level_filter compute_stats counts in total_lines,
\* level_counts and top_messages only the records whose level equals the
\* trimmed, upper-cased filter, and with an empty filter every record; blank
\* lines never reach it (parse_line gives None, iter_records_from_text drops
\* them).
C23_OnlyFilteredRecords ==
    LogComputed =>
        /\ Len(presented) = Cardinality(NonBlank)
        /\ stats.total_lines = Cardinality(Selected)
        /\ DOMAIN stats.level_counts = { presented[i].level : i \in Selected }
        /\ \A l \in DOMAIN stats.level_counts :
              stats.level_counts[l] = Cardinality({ i \in Selected : presented[i].level = l })
        /\ \A k \in 1..Len(stats.top_messages) :
              LET t == stats.top_messages[k]
              IN  /\ t.count > 0
                  /\ t.count = Cardinality({ i \in Selected : presented[i].message = t.message })

\* filter "info": of an INFO line, a WARN line and a blank line, one is counted
C23_Witness ==
    /\ LogComputed
    /\ level_filter = <<"i", "n", "f", "o">>
    /\ call.lines = << <<"[", "I", "N", "F", "O", "]", " ", "a">>, <<" ">>, <<"W", "A", "R", "N", ":", " ", "b">> >>
    /\ top_n = 2
    /\ stats = [total_lines  |-> 1,
                level_counts |-> (<<"I", "N", "F", "O">> :> 1),
                top_messages |-> << [count |-> 1, message |-> <<"a">>] >>]

\* ------------------------------------------------------------------
\* Properties of what the aggregation keeps (checked under SpecLog)
\* ------------------------------------------------------------------

\* C24: the most-frequent-K result is computed without retaining the stream:
\* at every point of the consumption the state kept holds at most K scored
\* items, every other item being discarded as soon as it is processed.
C24_KeepsAtMostK ==
    pc \in {"log_scan", "log_computed"} => Cardinality(DOMAIN msg_counter) <= top_n

\* what the code keeps: a count for every distinct message seen, here three
\* of them for K = 1, besides the list of all lines
CounterHoldsEveryMessage ==
    /\ pc = "log_scan"
    /\ top_n = 1
    /\ Cardinality(DOMAIN msg_counter) = 3
    /\ Len(call.lines) = 3

\* ------------------------------------------------------------------
\* Properties of the config values (checked under Spec)
\* ------------------------------------------------------------------

\* C25: when the config file supplies a value for a boolean setting not given
\* on the command line, apply_config coerces it with the truthy/falsey
\* vocabulary of the environment values: a string such as "false", "0", "no"
\* or "off" in the config resolves the setting to false.
C25_ConfigBoolVocabulary ==
    Resolved =>
        \A d \in BoolDests(program) :
            ( /\ ~HasToken(program, d)
              /\ EnvValue(program, d) = None
              /\ d \in DOMAIN LoadedConfig
              /\ LoadedConfig[d].t = "str"
              /\ InVocabulary(LoadedConfig[d].s) )
            => args[d] = PBool(lower(strip(LoadedConfig[d].s)) \in Truthy)

\* what the code does with "false" in the config: the setting is true
ConfigFalseStringIsTrue ==
    /\ Resolved
    /\ "json" \in DOMAIN LoadedConfig
    /\ LoadedConfig["json"] = PStr(<<"f", "a", "l", "s", "e">>)
    /\ ~HasToken(program, "json")
    /\ EnvValue(program, "json") = None
    /\ args["json"] = PBool(TRUE)

\* ------------------------------------------------------------------
\* Command lines as they may be typed: abbreviated options, and main(None)
\* reading sys.argv
\* ------------------------------------------------------------------

\* the option name without its last character: an abbreviation argparse accepts
Abbreviated(toks) ==
    [i \in 1..Len(toks) |->
        IF startswith(toks[i], <<"-", "-">>) /\ IndexOf(toks[i], "=") = 0
        THEN SubSeq(toks[i], 1, Len(toks[i]) - 1) ELSE toks[i]]

InitTyped ==
    /\ \E tool \in Tools : \E dest \in OptionDests(tool) \ {"config", "env_file"} :
       \E how \in {"abbreviated", "sys.argv", "abbreviated in sys.argv"} :
       \E os \in OsCases(dest) :
       \E cf \in { c \in ConfigCases(dest) : c.route \in {"none", "cli"} /\ c.st \in {"none", "has"} } :
          LET ef   == [st |-> "none"]
              toks == ArgvOf(tool, dest, "bare", ef, cf).items
          IN  /\ program = tool
              /\ argv = IF how = "abbreviated" THEN PList(Abbreviated(toks)) ELSE None
              /\ sys_argv = CASE how = "abbreviated" -> <<>>
                              [] how = "sys.argv"    -> toks
                              [] OTHER               -> Abbreviated(toks)
              /\ os_env = OsEnvOf(tool, dest, os, cf)
              /\ disk = DiskOf(tool, dest, ef, cf)
    /\ pc = "start"
    /\ args = None
    /\ cli_args = None
    /\ provided = {}
    /\ from_cli = FALSE
    /\ env_file = EmptyDict
    /\ loads = <<>>
    /\ exc = None
    /\ rc = None
    /\ out = <<>>
    /\ stream = <<>>
    /\ presented = <<>>
    /\ top_n = 0
    /\ count = 0
    /\ total_bytes = 0
    /\ heap = <<>>
    /\ stats = None
    /\ call = None
    /\ result = None
    /\ level_filter = <<>>
    /\ level_counter = EmptyDict
    /\ msg_counter = EmptyDict
    /\ by_message = <<>>
    /\ total = 0

\* resolve_effective_args
NextResolve == ParseArgs \/ ReadEnv \/ Merge

SpecTyped == InitTyped /\ [][NextResolve]_vars

\* ------------------------------------------------------------------
\* Properties of the provided set (checked under SpecTyped)
\* ------------------------------------------------------------------

\* the options parse_args took from the command line: their value is not the
\* default any more
TakenFromCommandLine ==
    { d \in OptionDests(program) : cli_args[d] # Defaults(program)[d] }

\* C26: the set computed by parse_provided_options contains the canonical
\* --name of every option that parse_args accepted from the command line of
\* the same run, also one typed as an unambiguous abbreviation and those read
\* from sys.argv when argv is None; so no value argparse took from the command
\* line is later overwritten by env or config.
C26_ProvidedCoversCommandLine ==
    /\ (pc # "start" /\ cli_args # None) =>
          \A d \in TakenFromCommandLine : OptOf(program, d) \in provided
    /\ Resolved => \A d \in TakenFromCommandLine : args[d] = cli_args[d]

\* what the code does: --to 3 is parsed as top = 3, provided holds --to, and
\* the environment's 1 replaces the 3
AbbreviatedOptionOverwritten ==
    /\ Resolved
    /\ program = "dirscan"
    /\ argv = PList(<< <<"-", "-", "t", "o">>, <<"3">> >>)
    /\ provided = { <<"-", "-", "t", "o">> }
    /\ cli_args["top"] = PInt(3)
    /\ args["top"] = PInt(1)

\* main(None): sys.argv holds --top 3, provided is empty, the config's 99 wins
SysArgvOptionOverwritten ==
    /\ Resolved
    /\ program = "dirscan"
    /\ argv = None
    /\ provided = {}
    /\ cli_args["top"] = PInt(3)
    /\ args["top"] = PInt(99)

\* ------------------------------------------------------------------
\* Properties of the order of the merges (checked under Spec)
\* ------------------------------------------------------------------

\* the specified order: the environment is applied first, the config then
\* only to the settings that neither the command line nor the environment set
SpecifiedOrder(tool, parsed, prov, fcli, osenv, envf) ==
    LET a1    == EnvConfigPath(tool, parsed, osenv, envf, prov)
        cfg   == IF a1["config"] # None THEN load_config(DiskAt(a1["config"].p)) ELSE EmptyDict
        byEnv == { d \in EnvDests(tool) \ {"config"} :
                     /\ EnvGuard(tool, d, a1, prov, fcli)
                     /\ EnvPresent(Conv(d), get_env(osenv, EnvName(tool, d), envf)) }
        r1    == apply_env(tool, a1, osenv, envf, prov, fcli)
    IN  IF ~r1.ok THEN r1
        ELSE apply_config(tool, r1.v, [d \in (DOMAIN cfg) \ byEnv |-> cfg[d]], prov)

\* the same resolved settings, or a failure in both
SameOutcome(x, y) == x.ok = y.ok /\ (x.ok => x.v = y.v)

\* C27: applying the config first and the environment second, each overwriting
\* the unprotected settings, gives for every combination of CLI, environment
\* and config contents the same outcome (the same resolved settings, or a
\* failure in the same cases) as the specified order, environment first and
\* the config then only for settings set neither by the CLI nor by the
\* environment.
C27_SameAsSpecifiedOrder ==
    JustResolved =>
        SameOutcome(Actual,
                    SpecifiedOrder(program, cli_args, provided, from_cli, os_env, env_file))

\* what the code does: the config says top = "abc", the environment says 1;
\* the run fails on the config value the environment would have replaced
SupersededConfigValueFails ==
    /\ pc = "exit"
    /\ exc # None
    /\ cli_args # None
    /\ program = "dirscan"
    /\ EnvValue("dirscan", "top") = PStr(<<"1">>)
    /\ SpecifiedOrder(program, cli_args, provided, from_cli, os_env, env_file).ok

\* ------------------------------------------------------------------
\* Properties of the scan mode (checked under Spec)
\* ------------------------------------------------------------------

\* C28: in the directory scanner a resolved mode that is not file or all
\* (it can only come from the environment or the config) is rejected with
\* exit code 2 before scanning starts; the run never scans with an unknown
\* mode to report an empty result with exit code 0.
C28_UnknownModeRejected ==
    ( /\ program = "dirscan"
      /\ AfterValidation
      /\ args["mode"].s \notin { <<"f", "i", "l", "e">>, <<"a", "l", "l">> } )
    => (pc = "exit" /\ rc = PInt(2) /\ stats = None /\ out = <<>>)

\* what the code does: mode zz from the env file, every entry of d1 is passed
\* over and the run ends with exit code 0
UnknownModeScansNothing ==
    /\ program = "dirscan"
    /\ pc = "exit"
    /\ rc = PInt(0)
    /\ args["mode"] = PStr(<<"z", "z">>)
    /\ stats # None
    /\ stats.count = 0

\* ------------------------------------------------------------------
\* Properties of the order of the entries (checked under SpecStats)
\* ------------------------------------------------------------------

\* the heap after the entries of a stream were offered in their order
RECURSIVE HeapAfter(_, _)
HeapAfter(entries, n) ==
    IF entries = <<>> THEN <<>>
    ELSE OfferHeap(HeapAfter(SubSeq(entries, 1, Len(entries) - 1), n),
                   entries[Len(entries)], n)

\* the orderings of the entries that were presented
Orderings ==
    { [i \in 1..Len(presented) |-> presented[p[i]]] : p \in Permutations(1..Len(presented)) }

\* C29: for a fixed top_n compute_stats returns the same count, the same
\* total_bytes and the same top list for every ordering of the same multiset
\* of entries.
C29_OrderOfEntriesIrrelevant ==
    pc = "computed" =>
        \A o \in Orderings :
            stats = Stats(Len(o), SumSizes(o), HeapAfter(o, top_n))

\* three entries of the same size presented as b, a, ab with top_n = 2: the
\* result is that of the five other orderings
C29_Witness ==
    /\ pc = "computed"
    /\ top_n = 2
    /\ presented = << Entry(<<"b">>, 1), Entry(<<"a">>, 1), Entry(<<"a", "b">>, 1) >>
    /\ stats.top = << Entry(<<"a", "b">>, 1), Entry(<<"b">>, 1) >>
    /\ Cardinality(Orderings) = 6

\* ------------------------------------------------------------------
\* Properties of the exit code and of the outputs (checked under Spec)
\* ------------------------------------------------------------------

\* validate_args was called in this run and returned non-zero / zero
ValidationFailed == exc = None /\ args # None /\ ValidateRc(program, args) # 0

ValidationPassed == exc = None /\ args # None /\ ValidateRc(program, args) = 0

\* the places of an output in what the run did
Places(what) == { i \in 1..Len(out) : out[i] = what }

\* C30: the exit code is 2 exactly when validation fails, 1 exactly when
\* validation passes and a requested --out write or --post delivery fails, and
\* 0 otherwise; the write is attempted before the POST and a failed write
\* returns at once, so no POST follows a failed write; and with json in effect
\* the report for people is never printed.
C30_ExitCodes ==
    /\ pc = "exit" =>
          /\ rc = PInt(2) <=> ValidationFailed
          /\ rc = PInt(1) <=>
                ( /\ ValidationPassed
                  /\ out # <<>>
                  /\ out[Len(out)] \in {"file:write", "http:post"} )
          /\ rc \in {PInt(0), PInt(1), PInt(2)}
          /\ (rc = PInt(1) /\ out[Len(out)] = "file:write") => Places("http:post") = {}
    /\ \A i \in Places("file:write") : \A j \in Places("http:post") : i < j
    /\ (args # None /\ pc \notin {"start", "parsed", "env_read"} /\ exc = None /\ args["json"].b)
          => Places("stdout:report") = {}

\* what the code does: TOP=abc in the environment, resolve_effective_args
\* raises ValueError, validate_args is never called and the process ends with
\* exit status 1
ExitOneWithoutValidation ==
    /\ pc = "exit"
    /\ rc = PInt(1)
    /\ exc # None
    /\ exc.type = "ValueError"
    /\ out = <<>>

====
